---- MODULE Spec2Model ----
(***************************************************************************)
(* Model of gbirke/mediasorter's text-transform core:                      *)
(*   - the path sanitizer (cleanPathSegment, cleanPath), and               *)
(*   - the bracket replacer (NewBracketReplacer, Replace).                 *)
(*                                                                         *)
(* A Go string is a sequence of bytes.  A string is modelled as a sequence *)
(* of one-element tokens, each token standing for one byte (one ASCII      *)
(* character, or one byte >= 0x80).  Tokens are TLA+ strings.              *)
(***************************************************************************)
EXTENDS Integers, Sequences, FiniteSets, TLC

\* ------------------------------------------------------------------------
\* Bounds of the model
\* ------------------------------------------------------------------------

\* longest path drawn over the full alphabet PathChars
MaxShort == 3

\* longest path drawn over the smaller alphabet CoreChars
MaxLen == 4

\* longest config drawn over ConfigChars
MaxConfigLen == 2

\* longest text drawn over TextCoreChars
MaxTextLen == 4

\* longest text drawn over TextChars
MaxTextShort == 3

\* longest tail appended to a long run of filler bytes
MaxInterior == 3

\* longest metadata text field drawn from the whole alphabet
MaxFieldLen == 2

\* longest text of a concurrent Replace call drawn from the whole alphabet
MaxScanLen == 2
MaxTail == 2

\* how many bytes below the segment cap the shortest filler run is
FillSlack == 1

\* ------------------------------------------------------------------------
\* Bytes
\* ------------------------------------------------------------------------

\* a byte >= 0x80 (part of a multi-byte UTF-8 sequence, or an invalid byte)
HiByte == "x80"

\* the control code 0x01
Ctl01 == "x01"

\* tab, line feed, form feed, carriage return
Tab == "tab"

LF == "lf"

FF == "ff"

CR == "cr"

\* the double quote, the single quote, the backslash and the backtick
DQuote == "dquote"

SQuote == "squote"

BackTick == "btick"

BSlash == "bslash"

\* forbiddenCharPattern: [<>:"'/\\|?*\x00-\x1F]
ForbiddenChars ==
    {"<", ">", ":", DQuote, SQuote, "/", BSlash, "|", "?", "*",
     Ctl01, Tab, LF, FF, CR}

\* bracketPattern: [\[\](){}]
BracketChars == {"[", "]", "(", ")", "{", "}"}

\* spacePattern: [_\t\r\n]+
SpaceChars == {"_", Tab, CR, LF}

\* multispacePattern: \s+   (Go's \s is [\t\n\f\r ])
WhiteSpaceChars == {Tab, LF, FF, CR, " "}

\* trimPathPattern, first alternative: ^[. ]+
LeadTrimChars == {".", " "}

\* trimPathPattern, second alternative: [-. ]+$
TailTrimChars == {"-", ".", " "}

\* Max 255 characters per segment
MaxSegmentBytes == 255

\* ------------------------------------------------------------------------
\* String helpers (Go's strings and regexp packages)
\* ------------------------------------------------------------------------

\* the concatenation of a sequence of strings
RECURSIVE Flatten(_)
Flatten(ss) ==
    IF Len(ss) = 0 THEN <<>>
    ELSE IF Len(ss) = 1 THEN ss[1]
    ELSE LET m == Len(ss) \div 2
         IN  Flatten(SubSeq(ss, 1, m)) \o Flatten(SubSeq(ss, m + 1, Len(ss)))

\* regexp.ReplaceAllString / strings.ReplaceAll for a pattern that matches
\* exactly one byte of `class`: every such byte becomes `rep`.
ReplaceEach(s, class, rep) ==
    Flatten([i \in 1..Len(s) |-> IF s[i] \in class THEN rep ELSE <<s[i]>>])

\* regexp.ReplaceAllString for a pattern [class]+ : every maximal run of
\* bytes of `class` becomes `rep`.
ReplaceRuns(s, class, rep) ==
    Flatten([i \in 1..Len(s) |->
                IF s[i] \notin class THEN <<s[i]>>
                ELSE IF i > 1 /\ s[i - 1] \in class THEN <<>>
                ELSE rep])

\* the longest prefix of s made of bytes of `class` removed
DropLeading(s, class) ==
    LET kept == {i \in 1..Len(s) : s[i] \notin class}
    IN  IF kept = {} THEN <<>>
        ELSE SubSeq(s, CHOOSE i \in kept : \A j \in kept : i <= j, Len(s))

\* the longest suffix of s made of bytes of `class` removed
DropTrailing(s, class) ==
    LET kept == {i \in 1..Len(s) : s[i] \notin class}
    IN  IF kept = {} THEN <<>>
        ELSE SubSeq(s, 1, CHOOSE i \in kept : \A j \in kept : i >= j)

\* strings.Split(s, sep) for a one-byte separator: always at least one piece
RECURSIVE SplitFrom(_, _, _)
SplitFrom(s, start, sep) ==
    LET seps == {i \in start..Len(s) : s[i] = sep}
    IN  IF seps = {} THEN <<SubSeq(s, start, Len(s))>>
        ELSE LET j == CHOOSE i \in seps : \A k \in seps : i <= k
             IN  <<SubSeq(s, start, j - 1)>> \o SplitFrom(s, j + 1, sep)

Split(s, sep) == SplitFrom(s, 1, sep)

\* strings.Join(elems, sep) for a one-byte separator
RECURSIVE Join(_, _)
Join(elems, sep) ==
    IF elems = <<>> THEN <<>>
    ELSE IF Len(elems) = 1 THEN elems[1]
    ELSE elems[1] \o <<sep>> \o Join(Tail(elems), sep)

\* strings.Trim(s, cutset)
Trim(s, cutset) == DropTrailing(DropLeading(s, cutset), cutset)

\* ------------------------------------------------------------------------
\* cleanPathSegment, stage by stage
\* ------------------------------------------------------------------------

\* mutant: the forbidden class without the angle brackets
StageForbiddenNoAngle(s) ==
    ReplaceEach(s, ForbiddenChars \ {"<", ">"}, <<"_">>)

\* mutant: the forbidden bytes are deleted
StageForbiddenDeletes(s) == ReplaceEach(s, ForbiddenChars, <<>>)

\* forbiddenCharPattern.ReplaceAllString(pathSegment, "_")
StageForbidden(s) == ReplaceEach(s, ForbiddenChars, <<"_">>)

\* bracketPattern.ReplaceAllString(cleaned, " - ")
StageBrackets(s) == ReplaceEach(s, BracketChars, <<" ", "-", " ">>)

\* strings.ReplaceAll: backtick deleted, "&" -> "and", "#" -> "No"
StageShell(s) ==
    ReplaceEach(ReplaceEach(ReplaceEach(s, {BackTick}, <<>>),
                            {"&"}, <<"a", "n", "d">>),
                {"#"}, <<"N", "o">>)

\* mutant: spacePattern alone
StageCollapseSpacePatternOnly(s) == ReplaceRuns(s, SpaceChars, <<" ">>)

\* spacePattern then multispacePattern, each match replaced by one space
StageCollapse(s) ==
    ReplaceRuns(ReplaceRuns(s, SpaceChars, <<" ">>), WhiteSpaceChars, <<" ">>)

\* mutant: the trim pattern without the dots, ^[ ]+|[- ]+$
StageTrimSpacesOnly(s) == DropTrailing(DropLeading(s, {" "}), {"-", " "})

\* mutant: the trim pattern without its first alternative
StageTrimTrailingOnly(s) == DropTrailing(s, TailTrimChars)

\* trimPathPattern.ReplaceAllString(cleaned, ""): the leading run of [. ]
\* is the first match; the trailing run of [-. ] of what is left the second
StageTrim(s) == DropTrailing(DropLeading(s, LeadTrimChars), TailTrimChars)

\* mutant: the cut one byte too long, cleaned[:256]
StageTruncateOffByOne(s) ==
    IF Len(s) > MaxSegmentBytes THEN SubSeq(s, 1, MaxSegmentBytes + 1) ELSE s

\* if len(cleaned) > 255 { cleaned = cleaned[:255] }
StageTruncate(s) ==
    IF Len(s) > MaxSegmentBytes THEN SubSeq(s, 1, MaxSegmentBytes) ELSE s

\* the text as it is after the trim and before the length cap
trimmedText(pathSegment) ==
    StageTrim(StageCollapse(StageShell(StageBrackets(StageForbidden(pathSegment)))))

cleanPathSegment(pathSegment) == StageTruncate(trimmedText(pathSegment))

\* ------------------------------------------------------------------------
\* cleanPath
\* ------------------------------------------------------------------------

\* mutant: the loop without its test for the empty cleaned segment
RECURSIVE appendCleanedKeepEmpty(_, _, _)
appendCleanedKeepEmpty(newSegments, segments, i) ==
    IF i > Len(segments) THEN newSegments
    ELSE appendCleanedKeepEmpty(
             Append(newSegments, cleanPathSegment(segments[i])), segments, i + 1)

\* the loop of cleanPath: the non-empty cleaned segments, appended in order
RECURSIVE appendCleaned(_, _, _)
appendCleaned(newSegments, segments, i) ==
    IF i > Len(segments) THEN newSegments
    ELSE LET cleanSegment == cleanPathSegment(segments[i])
         IN  appendCleaned(IF cleanSegment # <<>>
                           THEN Append(newSegments, cleanSegment)
                           ELSE newSegments,
                           segments, i + 1)

\* make([]string, len(segments)): len(segments) empty strings
makeSegments(n) == [k \in 1..n |-> <<>>]

\* mutant: the joined path is returned without strings.Trim
cleanPathUntrimmed(path) ==
    LET segments    == Split(path, "/")
        newSegments == appendCleaned(makeSegments(Len(segments)), segments, 1)
    IN  Join(newSegments, "/")

cleanPath(path) ==
    LET segments    == Split(path, "/")
        newSegments == appendCleaned(makeSegments(Len(segments)), segments, 1)
        cleanedPath == Join(newSegments, "/")
    IN  Trim(cleanedPath, {"/"})

\* ------------------------------------------------------------------------
\* Runes: []rune(s), range over a string, WriteRune, string(runes)
\* ------------------------------------------------------------------------

\* an invalid UTF-8 byte, 0xFF
BadByte == "xFF"

\* the three bytes of the UTF-8 encoding of U+FFFD
FFFDBytes == <<"xEF", "xBF", "xBD">>

\* U+FFFD, the rune Go decodes an invalid byte to
RuneError == "uFFFD"

\* the bytes >= 0x80 of the model
HighBytes == {HiByte, BadByte, "xEF", "xBF", "xBD"}

\* []rune(s) and range over s: an ASCII byte is its own rune, the bytes
\* EF BF BD are U+FFFD, every other byte >= 0x80 is invalid and decodes,
\* one byte at a time, to U+FFFD
RECURSIVE DecodeRunesFrom(_, _)
DecodeRunesFrom(s, i) ==
    IF i > Len(s) THEN <<>>
    ELSE IF i + 2 <= Len(s) /\ SubSeq(s, i, i + 2) = FFFDBytes
         THEN <<RuneError>> \o DecodeRunesFrom(s, i + 3)
    ELSE IF s[i] \in HighBytes
         THEN <<RuneError>> \o DecodeRunesFrom(s, i + 1)
    ELSE <<s[i]>> \o DecodeRunesFrom(s, i + 1)

DecodeRunes(s) == DecodeRunesFrom(s, 1)

\* the byte index at which each rune of s starts, with Len(s) + 1 appended
RECURSIVE RuneStartsFrom(_, _)
RuneStartsFrom(s, i) ==
    IF i > Len(s) THEN <<i>>
    ELSE IF i + 2 <= Len(s) /\ SubSeq(s, i, i + 2) = FFFDBytes
         THEN <<i>> \o RuneStartsFrom(s, i + 3)
    ELSE <<i>> \o RuneStartsFrom(s, i + 1)

\* the bytes of s that hold its runes a .. b
BytesOfRunes(s, a, b) ==
    LET starts == RuneStartsFrom(s, 1)
    IN  SubSeq(s, starts[a], starts[b + 1] - 1)

\* strings.Builder.WriteRune / string(runes): the UTF-8 bytes of the runes
EncodeRunes(runes) ==
    Flatten([i \in 1..Len(runes) |->
                IF runes[i] = RuneError THEN FFFDBytes ELSE <<runes[i]>>])

\* ------------------------------------------------------------------------
\* bracketreplacer.go: construction
\* ------------------------------------------------------------------------

\* var allBracketPairs
allBracketPairs ==
    [o \in {"(", "[", "{", "<"} |->
        CASE o = "(" -> ")"
          [] o = "[" -> "]"
          [] o = "{" -> "}"
          [] o = "<" -> ">"]

isKnownOpenBracket(r) == r \in DOMAIN allBracketPairs

isKnownCloseBracket(r) == \E o \in DOMAIN allBracketPairs : allBracketPairs[o] = r

\* a BracketReplacer before parseConfig ran: make(map[rune]rune), nil regexp
EmptyReplacer ==
    [activeBrackets |-> [o \in {} |-> ""],
     contentRegex   |-> [caseInsensitive |-> FALSE, alternatives |-> <<>>]]

\* mutant: a closing bracket registers its pair as well
RECURSIVE scanConfigCloseActivates(_, _, _, _, _)
scanConfigCloseActivates(runes, i, active, inPattern, built) ==
    IF i > Len(runes) THEN [active |-> active, built |-> built]
    ELSE IF isKnownOpenBracket(runes[i])
         THEN scanConfigCloseActivates(runes, i + 1, active \cup {runes[i]},
                                       TRUE, built)
    ELSE IF isKnownCloseBracket(runes[i])
         THEN scanConfigCloseActivates(
                  runes, i + 1,
                  active \cup {o \in DOMAIN allBracketPairs :
                                   allBracketPairs[o] = runes[i]},
                  FALSE, built)
    ELSE IF inPattern
         THEN scanConfigCloseActivates(runes, i + 1, active, inPattern,
                                       Append(built, runes[i]))
    ELSE scanConfigCloseActivates(runes, i + 1, active, inPattern, built)

\* mutant: a closing bracket does not end the pattern region
RECURSIVE scanConfigCloseKeepsRegion(_, _, _, _, _)
scanConfigCloseKeepsRegion(runes, i, active, inPattern, built) ==
    IF i > Len(runes) THEN [active |-> active, built |-> built]
    ELSE IF isKnownOpenBracket(runes[i])
         THEN scanConfigCloseKeepsRegion(runes, i + 1, active \cup {runes[i]},
                                         TRUE, built)
    ELSE IF isKnownCloseBracket(runes[i])
         THEN scanConfigCloseKeepsRegion(runes, i + 1, active, inPattern, built)
    ELSE IF inPattern
         THEN scanConfigCloseKeepsRegion(runes, i + 1, active, inPattern,
                                         Append(built, runes[i]))
    ELSE scanConfigCloseKeepsRegion(runes, i + 1, active, inPattern, built)

\* the first pass of parseConfig: the opening brackets seen, and the runes
\* written to patternBuilder
RECURSIVE scanConfig(_, _, _, _, _)
scanConfig(runes, i, active, inPattern, built) ==
    IF i > Len(runes) THEN [active |-> active, built |-> built]
    ELSE IF isKnownOpenBracket(runes[i])
         THEN scanConfig(runes, i + 1, active \cup {runes[i]}, TRUE, built)
    ELSE IF isKnownCloseBracket(runes[i])
         THEN scanConfig(runes, i + 1, active, FALSE, built)
    ELSE IF inPattern
         THEN scanConfig(runes, i + 1, active, inPattern, Append(built, runes[i]))
    ELSE scanConfig(runes, i + 1, active, inPattern, built)

\* the white space of strings.TrimSpace (its ASCII part)
VT == "vt"

TrimSpaceChars == {Tab, LF, VT, FF, CR, " "}

TrimSpace(s) == Trim(s, TrimSpaceChars)

\* mutant: the pieces between the commas are not trimmed
parsePatternsPiecesUntrimmed(built) ==
    LET patternStr  == TrimSpace(built)
        rawPatterns == IF patternStr # <<>> THEN Split(patternStr, ",") ELSE <<>>
        patterns    == SelectSeq(rawPatterns, LAMBDA t : t # <<>>)
    IN  IF Len(patterns) = 0 THEN << <<"*">> >> ELSE patterns

\* the patterns parseConfig hands to buildContentRegex
parsePatterns(built) ==
    LET patternStr  == TrimSpace(built)
        rawPatterns == IF patternStr # <<>> THEN Split(patternStr, ",") ELSE <<>>
        trimmed     == [k \in 1..Len(rawPatterns) |-> TrimSpace(rawPatterns[k])]
        patterns    == SelectSeq(trimmed, LAMBDA t : t # <<>>)
    IN  IF Len(patterns) = 0 THEN << <<"*">> >> ELSE patterns

\* one pattern as a piece of regular expression: '*' is ".*", every other
\* rune is written raw (letter, digit, space) or quoted, and so matches
\* itself
convertPatternToRegex(pattern) ==
    [i \in 1..Len(pattern) |->
        IF pattern[i] = "*" THEN [any |-> TRUE, lit |-> ""]
        ELSE [any |-> FALSE, lit |-> pattern[i]]]

\* mutant: the expression compiled without the (?i) flag
buildContentRegexCaseSensitive(patterns) ==
    [caseInsensitive |-> FALSE,
     alternatives    |->
         IF Len(patterns) = 0 THEN << <<>> >>
         ELSE [k \in 1..Len(patterns) |-> convertPatternToRegex(patterns[k])]]

\* "(?i)(" + strings.Join(regexParts, "|") + ")"; the group of no parts
\* is "()", one empty alternative
buildContentRegex(patterns) ==
    [caseInsensitive |-> TRUE,
     alternatives    |->
         IF Len(patterns) = 0 THEN << <<>> >>
         ELSE [k \in 1..Len(patterns) |-> convertPatternToRegex(patterns[k])]]

parseConfig(config) ==
    LET scanned == scanConfig(DecodeRunes(config), 1, {}, FALSE, <<>>)
    IN  [activeBrackets |-> [o \in scanned.active |-> allBracketPairs[o]],
         contentRegex   |-> buildContentRegex(parsePatterns(scanned.built))]

NewBracketReplacer(configString) == parseConfig(configString)

\* ------------------------------------------------------------------------
\* regexp: (?i) folding and MatchString
\* ------------------------------------------------------------------------

UpperLetters ==
    <<"A", "B", "C", "D", "E", "F", "G", "H", "I", "J", "K", "L", "M",
      "N", "O", "P", "Q", "R", "S", "T", "U", "V", "W", "X", "Y", "Z">>

LowerLetters ==
    <<"a", "b", "c", "d", "e", "f", "g", "h", "i", "j", "k", "l", "m",
      "n", "o", "p", "q", "r", "s", "t", "u", "v", "w", "x", "y", "z">>

\* simple case folding of the ASCII letters
Fold(r) ==
    IF \E k \in 1..Len(UpperLetters) : UpperLetters[k] = r
    THEN LowerLetters[CHOOSE k \in 1..Len(UpperLetters) : UpperLetters[k] = r]
    ELSE r

RuneMatches(ci, lit, r) == IF ci THEN Fold(lit) = Fold(r) ELSE lit = r

\* whether the atoms from k on match some text that starts at rune i;
\* '.' matches every rune but the line feed
RECURSIVE MatchHere(_, _, _, _, _)
MatchHere(ci, atoms, k, s, i) ==
    IF k > Len(atoms) THEN TRUE
    ELSE IF atoms[k].any
         THEN \E j \in i..(Len(s) + 1) :
                  /\ \A m \in i..(j - 1) : s[m] # LF
                  /\ MatchHere(ci, atoms, k + 1, s, j)
    ELSE /\ i <= Len(s)
         /\ RuneMatches(ci, atoms[k].lit, s[i])
         /\ MatchHere(ci, atoms, k + 1, s, i + 1)

\* regexp.MatchString: the expression has no ^ and no $, so a match may
\* start at any rune and need not reach the end
MatchString(regex, s) ==
    \E a \in 1..Len(regex.alternatives) :
        \E i \in 1..(Len(s) + 1) :
            MatchHere(regex.caseInsensitive, regex.alternatives[a], 1, s, i)

\* ------------------------------------------------------------------------
\* bracketreplacer.go: Replace
\* ------------------------------------------------------------------------

isActiveOpenBracket(br, r) == r \in DOMAIN br.activeBrackets

\* mutant: an opening bracket of any type raises the count, a closing
\* bracket of any type lowers it
RECURSIVE findCloseAnyType(_, _, _, _, _)
findCloseAnyType(runes, i, bracketCount, openBracket, closeBracket) ==
    IF i <= Len(runes) /\ bracketCount > 0
    THEN findCloseAnyType(runes, i + 1,
                          IF isKnownOpenBracket(runes[i]) THEN bracketCount + 1
                          ELSE IF isKnownCloseBracket(runes[i]) THEN bracketCount - 1
                          ELSE bracketCount,
                          openBracket, closeBracket)
    ELSE [i |-> i, bracketCount |-> bracketCount]

\* the inner loop of Replace: from rune i on, until bracketCount is 0 or
\* the runes end
RECURSIVE findClose(_, _, _, _, _)
findClose(runes, i, bracketCount, openBracket, closeBracket) ==
    IF i <= Len(runes) /\ bracketCount > 0
    THEN findClose(runes, i + 1,
                   IF runes[i] = openBracket THEN bracketCount + 1
                   ELSE IF runes[i] = closeBracket THEN bracketCount - 1
                   ELSE bracketCount,
                   openBracket, closeBracket)
    ELSE [i |-> i, bracketCount |-> bracketCount]

\* mutant: on a match the interior is written without its brackets
writeSpanUnwraps(br, runes, start, i, replacement) ==
    IF MatchString(br.contentRegex, SubSeq(runes, start + 1, i - 2))
    THEN EncodeRunes(SubSeq(runes, start + 1, i - 2))
    ELSE EncodeRunes(SubSeq(runes, start, i - 1))

\* mutant: the test of the content inverted
writeSpanInverted(br, runes, start, i, replacement) ==
    IF ~MatchString(br.contentRegex, SubSeq(runes, start + 1, i - 2))
    THEN replacement
    ELSE EncodeRunes(SubSeq(runes, start, i - 1))

\* mutant: on a match the closing bracket is written after the replacement
writeSpanKeepsClose(br, runes, start, i, replacement) ==
    IF MatchString(br.contentRegex, SubSeq(runes, start + 1, i - 2))
    THEN replacement \o EncodeRunes(<<runes[i - 1]>>)
    ELSE EncodeRunes(SubSeq(runes, start, i - 1))

\* what Replace writes for the balanced span runes[start .. i-1] (the
\* position i is the one after the closing bracket)
writeSpan(br, runes, start, i, replacement) ==
    IF MatchString(br.contentRegex, SubSeq(runes, start + 1, i - 2))
    THEN replacement
    ELSE EncodeRunes(SubSeq(runes, start, i - 1))

\* the outer loop of Replace from rune i on: what it writes to result
RECURSIVE replaceFrom(_, _, _, _)
replaceFrom(br, runes, i, replacement) ==
    IF i > Len(runes) THEN <<>>
    ELSE IF isActiveOpenBracket(br, runes[i])
         THEN LET found == findClose(runes, i + 1, 1,
                                     runes[i], br.activeBrackets[runes[i]])
              IN  IF found.bracketCount = 0
                  THEN writeSpan(br, runes, i, found.i, replacement)
                           \o replaceFrom(br, runes, found.i, replacement)
                  ELSE EncodeRunes(SubSeq(runes, i, Len(runes)))
    ELSE EncodeRunes(<<runes[i]>>) \o replaceFrom(br, runes, i + 1, replacement)

Replace(br, text, replacement) == replaceFrom(br, DecodeRunes(text), 1, replacement)

\* Replace step by step, on the local variables c of one call.
\* The entry of Replace: runes := []rune(text), i := 0 (the model counts
\* from 1)
enterReplace(c, text, replacement) ==
    [c EXCEPT !.pc = "outer", !.text = text, !.replacement = replacement,
              !.runes = DecodeRunes(text), !.i = 1, !.result = <<>>]

\* the test of the outer loop and, for a rune that is no active opening
\* bracket, its whole iteration; for an active opening bracket the
\* iteration up to the inner loop
outerStep(br, c) ==
    IF c.i > Len(c.runes) THEN [c EXCEPT !.pc = "done"]
    ELSE IF isActiveOpenBracket(br, c.runes[c.i])
         THEN [c EXCEPT !.start = c.i,
                        !.openBracket = c.runes[c.i],
                        !.closeBracket = br.activeBrackets[c.runes[c.i]],
                        !.bracketCount = 1,
                        !.i = c.i + 1,
                        !.pc = "inner"]
    ELSE [c EXCEPT !.result = @ \o EncodeRunes(<<c.runes[c.i]>>), !.i = c.i + 1]

\* mutant: the inner loop goes on without i++ at a rune that is no bracket
\* of the type
innerStepStaysAtOtherRune(br, c) ==
    IF c.i <= Len(c.runes) /\ c.bracketCount > 0
    THEN IF c.runes[c.i] = c.openBracket
         THEN [c EXCEPT !.bracketCount = @ + 1, !.i = c.i + 1]
         ELSE IF c.runes[c.i] = c.closeBracket
         THEN [c EXCEPT !.bracketCount = @ - 1, !.i = c.i + 1]
         ELSE c
    ELSE IF c.bracketCount = 0
    THEN [c EXCEPT !.result = @ \o writeSpan(br, c.runes, c.start, c.i, c.replacement),
                   !.pc = "outer"]
    ELSE [c EXCEPT !.result = @ \o EncodeRunes(SubSeq(c.runes, c.start, Len(c.runes))),
                   !.pc = "done"]

\* mutant: the closing bracket is looked up in the filter at every rune of
\* the inner loop, for the rune at hand
innerStepLooksUpClose(br, c) ==
    IF c.i <= Len(c.runes) /\ c.bracketCount > 0
    THEN [c EXCEPT !.bracketCount =
                       IF c.runes[c.i] = c.openBracket THEN @ + 1
                       ELSE IF isKnownCloseBracket(c.runes[c.i]) THEN @ - 1
                       ELSE @,
                   !.i = c.i + 1]
    ELSE IF c.bracketCount = 0
    THEN [c EXCEPT !.result = @ \o writeSpan(br, c.runes, c.start, c.i, c.replacement),
                   !.pc = "outer"]
    ELSE [c EXCEPT !.result = @ \o EncodeRunes(SubSeq(c.runes, c.start, Len(c.runes))),
                   !.pc = "done"]

\* the test of the inner loop and one iteration of it; after the loop the
\* rest of the iteration of the outer loop: the span or the replacement is
\* written, or the rest of the runes and the outer loop is left
innerStep(br, c) ==
    IF c.i <= Len(c.runes) /\ c.bracketCount > 0
    THEN [c EXCEPT !.bracketCount =
                       IF c.runes[c.i] = c.openBracket THEN @ + 1
                       ELSE IF c.runes[c.i] = c.closeBracket THEN @ - 1
                       ELSE @,
                   !.i = c.i + 1]
    ELSE IF c.bracketCount = 0
    THEN [c EXCEPT !.result = @ \o writeSpan(br, c.runes, c.start, c.i, c.replacement),
                   !.pc = "outer"]
    ELSE [c EXCEPT !.result = @ \o EncodeRunes(SubSeq(c.runes, c.start, Len(c.runes))),
                   !.pc = "done"]

\* mutant: the text and the replacement handed to Replace in the other order
ReplaceInBracketsSwapped(configString, replacement, text) ==
    LET replacer == NewBracketReplacer(configString)
    IN  Replace(replacer, replacement, text)

\* the template function replaceInBrackets
ReplaceInBrackets(configString, replacement, text) ==
    LET replacer == NewBracketReplacer(configString)
    IN  Replace(replacer, text, replacement)

\* the template function removeBrackets
RemoveBrackets(configString, text) ==
    LET replacer == NewBracketReplacer(configString)
    IN  Replace(replacer, text, <<>>)

\* ------------------------------------------------------------------------
\* Inputs of the path sanitizer
\* ------------------------------------------------------------------------

PathChars ==
    {"a", "/", "<", Tab, "(", BackTick, "&", "#", "_", " ", ".", "-", HiByte}

\* the bytes that decide the structure of a path and the trim
CoreChars == {"a", "/", " ", ".", "-", "("}

\* the bytes that follow a long run of filler bytes
TailChars == {"a", "/", " ", ".", "-", "(", HiByte}

\* every string over `chars` of length n
RECURSIVE StringsOfLen(_, _)
StringsOfLen(chars, n) ==
    IF n = 0 THEN {<<>>}
    ELSE {Append(s, c) : s \in StringsOfLen(chars, n - 1), c \in chars}

\* every string over `chars` of length at most n
StringsUpTo(chars, n) == UNION {StringsOfLen(chars, k) : k \in 0..n}

Filler(n) == [k \in 1..n |-> "a"]

\* a run of filler bytes around the segment cap, followed by a short tail
LongPaths ==
    {Filler(n) \o t :
        n \in (MaxSegmentBytes - FillSlack)..(MaxSegmentBytes + 1),
        t \in StringsUpTo(TailChars, MaxTail)}

PathInputs ==
    StringsUpTo(PathChars, MaxShort) \cup StringsUpTo(CoreChars, MaxLen)
        \cup LongPaths

\* ------------------------------------------------------------------------
\* Inputs of the bracket replacer
\* ------------------------------------------------------------------------

ConfigChars == {"(", ")", "l"}

\* configs of the repository's tests and README, each word shortened to one
\* letter, and configs without an opening bracket
TestConfigs ==
    {<<"(", "*", ")">>,
     <<"(", "[", "*", "]", ")">>,
     <<"(", "[", "]", ")">>,
     <<"[", "l", "]">>,
     <<"[", "(", "l", ")", "]">>,
     <<"(", "l", ",", "x", ")">>,
     <<"(", " ", "l", ",", " ", "x", " ", ")">>,
     <<"(", ",", "l", ",", ")">>,
     <<"(", ",", ")">>,
     <<"(", "[", "{", "l", ",", "x", "}", "]", ")">>,
     <<"(", "x", "*", "l", ")">>,
     <<"l", ",", "x">>,
     <<"*">>,
     <<"l", "]", ")">>,
     <<"(", ",", " ", ",", ")">>,
     <<"<", "l", ">">>,
     <<"(", "(", "l", "]">>,
     <<"l", "(", "[", "*", "]", ")", "x">>,
     <<"(", "l", ")", "[", "x", "]">>,
     <<"(", ".", ")">>,
     <<"(", ".", ",", "+", ")">>,
     <<"(", "l", ")">>,
     <<"(", "x", "*", "x", ")">>}

Configs == StringsUpTo(ConfigChars, MaxConfigLen) \cup TestConfigs

\* the bytes of a text with round brackets only
TextCoreChars == {"(", ")", "L", "x"}

\* the bytes of a text with round and square brackets and an invalid byte
TextChars == {"(", ")", "[", "]", "l", BadByte}

\* the runes of an interior that try the pattern characters: letters,
\* characters that the regular expression syntax gives a meaning, and the
\* line feed
InteriorChars == {"x", ".", "+", LF}

\* one round span around such an interior
SpanTexts ==
    {<<"(">> \o m \o <<")">> : m \in StringsUpTo(InteriorChars, MaxInterior)}

Texts ==
    StringsUpTo(TextCoreChars, MaxTextLen) \cup StringsUpTo(TextChars, MaxTextShort)
        \cup SpanTexts

\* the texts handed to the template functions
TemplateTexts ==
    StringsUpTo(TextCoreChars, MaxTextShort)
        \cup {<<"x", "(", "L", ")", "(">>,
              <<"(", "(", "L", ")", ")">>,
              <<"(", "x", ")", "(", "L", ")", ")">>,
              <<")", "(", "L", ")", "(", ")">>,
              <<"[", "(", "L", "]", ")">>,
              <<"(", BadByte, ")", "(", "L", ")">>}

Replacements == {<<>>, <<"R">>}

\* the filters shared by concurrent calls
ScanConfigs ==
    {<<"(", "l", ")">>, <<"(">>, <<"(", "[", "l", "]", ")">>}

\* texts with a replaced span, a kept span, nested and crossing spans, an
\* opening bracket without its close and an invalid byte
ScanTestTexts ==
    {<<"(", "l", ")", "x">>,
     <<"(", "x", ")", "(", "l", ")">>,
     <<"(", "(", "l", ")">>,
     <<"[", "(", "l", "]", ")">>,
     <<"(", "l", "]", ")">>,
     <<"(", "(", "x", ")", ")", "l">>,
     <<"(", ")", ")">>,
     <<"x", "(", BadByte>>}

\* the texts of a caller: the first one tries every short text
ScanTextsOf(c) ==
    IF c = 1
    THEN StringsUpTo({"(", ")", "l"}, MaxScanLen) \cup ScanTestTexts
    ELSE ScanTestTexts

\* the replacement may hold an active bracket
ScanReplacements == {<<>>, <<"(", "R">>}

\* ------------------------------------------------------------------------
\* main.go: paths, the file system and the file processors
\* ------------------------------------------------------------------------

\* the largest index of s that holds c, 0 when there is none
LastIndex(s, c) ==
    LET found == {i \in 1..Len(s) : s[i] = c}
    IN  IF found = {} THEN 0 ELSE CHOOSE i \in found : \A j \in found : j <= i

\* filepath.Ext: the suffix of the last element that starts at its last '.'
Ext(path) ==
    IF LastIndex(path, ".") > LastIndex(path, "/")
    THEN SubSeq(path, LastIndex(path, "."), Len(path))
    ELSE <<>>

\* the lexical processing of filepath.Clean on the components of a path:
\* "." is dropped, ".." takes away the component before it
RECURSIVE CleanComponents(_, _, _)
CleanComponents(comps, k, kept) ==
    IF k > Len(comps) THEN kept
    ELSE IF comps[k] = <<>> \/ comps[k] = <<".">>
         THEN CleanComponents(comps, k + 1, kept)
    ELSE IF comps[k] = <<".", ".">> /\ Len(kept) > 0 /\ kept[Len(kept)] # <<".", ".">>
         THEN CleanComponents(comps, k + 1, SubSeq(kept, 1, Len(kept) - 1))
    ELSE CleanComponents(comps, k + 1, Append(kept, comps[k]))

\* filepath.Clean of a relative path
Clean(path) ==
    LET kept == CleanComponents(Split(path, "/"), 1, <<>>)
    IN  IF Len(kept) = 0 THEN <<".">> ELSE Join(kept, "/")

\* filepath.Join(dir, rest): the non-empty elements joined by '/' and cleaned
JoinPath(dir, rest) ==
    IF dir = <<>> /\ rest = <<>> THEN <<>>
    ELSE IF dir = <<>> THEN Clean(rest)
    ELSE IF rest = <<>> THEN Clean(dir)
    ELSE Clean(dir \o <<"/">> \o rest)

\* filepath.Dir of a relative path
Dir(path) ==
    IF LastIndex(path, "/") = 0 THEN <<".">>
    ELSE Clean(SubSeq(path, 1, LastIndex(path, "/") - 1))

\* the directory and the directories above it, the highest first
DirChain(dir) ==
    LET comps == Split(dir, "/")
    IN  [k \in 1..Len(comps) |-> Join(SubSeq(comps, 1, k), "/")]

\* the content of a file that was created and never written
EmptyContent == "empty"

\* os.MkdirAll(dir): the directory and its missing parents are made, down
\* to the first one whose name is taken by a file
MkdirAll(disk, dir) ==
    LET chain   == DirChain(dir)
        blocked == {k \in 1..Len(chain) : chain[k] \in DOMAIN disk.files}
        upTo    == IF blocked = {} THEN Len(chain)
                   ELSE (CHOOSE k \in blocked : \A j \in blocked : k <= j) - 1
    IN  [disk |-> [disk EXCEPT !.dirs = @ \cup {chain[k] : k \in 1..upTo}],
         ok   |-> blocked = {}]

\* a file written with a content, created or replaced
WithFile(disk, path, content) ==
    [disk EXCEPT !.files = (path :> content) @@ @]

WithoutFile(disk, path) ==
    [disk EXCEPT !.files = [q \in (DOMAIN @) \ {path} |-> @[q]]]

\* mutant: a destination that is there stops the copy
CopyFileKeepsExisting(disk, srcPath, destPath) ==
    LET made == MkdirAll(disk, Dir(destPath))
    IN  IF ~made.ok THEN [disk |-> made.disk, err |-> "mkdir"]
        ELSE IF destPath \in made.disk.dirs \/ destPath \in DOMAIN made.disk.files
             THEN [disk |-> made.disk, err |-> "create"]
        ELSE LET created == WithFile(made.disk, destPath, EmptyContent)
             IN  IF srcPath \notin DOMAIN created.files
                 THEN [disk |-> created, err |-> "open"]
                 ELSE [disk |-> WithFile(created, destPath, created.files[srcPath]),
                       err  |-> "nil"]

\* CopyFile: the directory is made, the destination created or truncated,
\* the source opened and copied into it
CopyFile(disk, srcPath, destPath) ==
    LET made == MkdirAll(disk, Dir(destPath))
    IN  IF ~made.ok THEN [disk |-> made.disk, err |-> "mkdir"]
        ELSE IF destPath \in made.disk.dirs
             THEN [disk |-> made.disk, err |-> "create"]
        ELSE LET created == WithFile(made.disk, destPath, EmptyContent)
             IN  IF srcPath \notin DOMAIN created.files
                 THEN [disk |-> created, err |-> "open"]
                 ELSE [disk |-> WithFile(created, destPath, created.files[srcPath]),
                       err  |-> "nil"]

\* MoveFile: the directory is made and the source renamed to the
\* destination, which it replaces
MoveFile(disk, srcPath, destPath) ==
    LET made == MkdirAll(disk, Dir(destPath))
    IN  IF ~made.ok THEN [disk |-> made.disk, err |-> "mkdir"]
        ELSE IF srcPath \notin DOMAIN made.disk.files \/ destPath \in made.disk.dirs
             THEN [disk |-> made.disk, err |-> "rename"]
        ELSE IF srcPath = destPath THEN [disk |-> made.disk, err |-> "nil"]
        ELSE [disk |-> WithoutFile(WithFile(made.disk, destPath,
                                            made.disk.files[srcPath]),
                                   srcPath),
              err  |-> "nil"]

DryRunFileProcessor(disk, srcPath, destPath) == [disk |-> disk, err |-> "nil"]

\* the call m.FileProcessor(srcPath, destPath)
RunFileProcessor(processor, disk, srcPath, destPath) ==
    CASE processor = "CopyFile" -> CopyFile(disk, srcPath, destPath)
      [] processor = "MoveFile" -> MoveFile(disk, srcPath, destPath)
      [] processor = "DryRunFileProcessor" ->
             DryRunFileProcessor(disk, srcPath, destPath)

\* mutant: --move wins over --dry-run
FileProcessorOfMoveWins(fl) ==
    IF fl.move THEN "MoveFile"
    ELSE IF fl.dryRun THEN "DryRunFileProcessor"
    ELSE "CopyFile"

\* main: the file processor the flags select
FileProcessorOf(fl) ==
    IF fl.dryRun THEN "DryRunFileProcessor"
    ELSE IF fl.move THEN "MoveFile"
    ELSE "CopyFile"

\* main: the override checker the flags select
OverrideCheckerOf(fl) ==
    IF fl.override THEN "MemoryOverrideChecker" ELSE "NoOverrideChecker"

\* main: the verbosity of the output writer, 0 Quiet, 1 Verbose, 2 Debug
VerbosityOf(fl) ==
    IF fl.dryRun /\ fl.verbose < 1 THEN 1
    ELSE IF fl.verbose >= 2 THEN 2
    ELSE fl.verbose

\* DestinationFileExists of the two checkers: the answer and the SeenFiles
\* after the call
DestinationFileExists(checker, seen, destPath) ==
    IF checker = "NoOverrideChecker" THEN [exists |-> FALSE, seen |-> seen]
    ELSE IF destPath \in seen THEN [exists |-> TRUE, seen |-> seen]
    ELSE [exists |-> FALSE, seen |-> seen \cup {destPath}]

\* mutant: the title is left as it is
CleanForPathsKeepsTitle(md) ==
    [md EXCEPT !.Artist      = SelectSeq(@, LAMBDA c : c # "/"),
               !.AlbumArtist = SelectSeq(@, LAMBDA c : c # "/"),
               !.Album       = SelectSeq(@, LAMBDA c : c # "/"),
               !.Genre       = SelectSeq(@, LAMBDA c : c # "/")]

\* Metadata.CleanForPaths: every '/' deleted from the text fields
CleanForPaths(md) ==
    [md EXCEPT !.Title       = SelectSeq(@, LAMBDA c : c # "/"),
               !.Artist      = SelectSeq(@, LAMBDA c : c # "/"),
               !.AlbumArtist = SelectSeq(@, LAMBDA c : c # "/"),
               !.Album       = SelectSeq(@, LAMBDA c : c # "/"),
               !.Genre       = SelectSeq(@, LAMBDA c : c # "/")]

\* printf "%02d" of a track number below 100
TwoDigits(n) ==
    LET digit(d) == CASE d = 0 -> "0" [] d = 1 -> "1" [] d = 2 -> "2"
                      [] d = 3 -> "3" [] d = 4 -> "4" [] d = 5 -> "5"
                      [] d = 6 -> "6" [] d = 7 -> "7" [] d = 8 -> "8"
                      [] d = 9 -> "9"
    IN  <<digit(n \div 10), digit(n % 10)>>

\* defaultPathTemplate executed on the metadata
defaultPathTemplate(md) ==
    (IF md.AlbumArtist # <<>> THEN md.AlbumArtist ELSE md.Artist)
        \o <<"/">> \o md.Album \o <<"/">>
        \o (IF md.Track # 0 THEN TwoDigits(md.Track) \o <<".", " ">> ELSE <<>>)
        \o md.Title

\* OutputWriter.Write: the message is printed when its level is at most
\* the verbosity
Written(verbosity, level, msg) ==
    IF level > verbosity THEN <<>> ELSE << msg >>

\* ------------------------------------------------------------------------
\* State: one call at a time
\* ------------------------------------------------------------------------

VARIABLES
    op,           \* the function called last: "none" before the first call
    input,        \* its argument: a path, a segment or a text
    output,       \* its result
    config,       \* the configString a BracketReplacer is built from
    br,           \* the BracketReplacer
    replacement,  \* the replacement of the last Replace call
    flags,        \* the command line flags of the run
    disk,         \* the files, each with its content, and the directories
    seenFiles,    \* SeenFiles of the MemoryOverrideChecker
    pending,      \* the file groups Sort has not processed yet
    result,       \* what the last ProcessFileGroup call did
    metadata,     \* the metadata a destination path is made from
    calls         \* the Replace calls under way on the BracketReplacer br,
                  \* each with its local variables

vars ==
    <<op, input, output, config, br, replacement,
      flags, disk, seenFiles, pending, result, metadata, calls>>

brVars == <<config, br, replacement>>

callVars == <<op, input, output, config, br, replacement>>

sortVars == <<flags, disk, seenFiles, pending, result, metadata>>

\* the metadata of a file with the fields the default template reads
Tags(artist, albumArtist, album, title, track) ==
    [Title |-> title, Artist |-> artist, AlbumArtist |-> albumArtist,
     Album |-> album, Genre |-> <<>>, Track |-> track]

NoTags == Tags(<<>>, <<>>, <<>>, <<>>, 0)


NoFlags == [dryRun |-> FALSE, move |-> FALSE, override |-> FALSE, verbose |-> 0]

NoResult ==
    [media |-> <<>>, destPath |-> <<>>, outcome |-> "none", mediaErr |-> "none",
     sidecars |-> <<>>, tried |-> <<>>, printed |-> <<>>]

scanVars == <<calls>>

\* the goroutines that call Replace
Callers == {1, 2}

\* the local variables of a Replace that was not called yet
NoCall ==
    [pc |-> "idle", text |-> <<>>, replacement |-> <<>>, runes |-> <<>>, i |-> 1,
     start |-> 0, openBracket |-> "", closeBracket |-> "", bracketCount |-> 0,
     result |-> <<>>]

\* no Replace call is under way
ScanIdle == calls = [c \in Callers |-> NoCall]

\* the sorter is not running
SortIdle ==
    /\ flags = NoFlags
    /\ disk = [files |-> <<>>, dirs |-> {}]
    /\ seenFiles = {}
    /\ pending = {}
    /\ result = NoResult
    /\ metadata = NoTags
    /\ ScanIdle

PathInit ==
    /\ op = "none"
    /\ input \in PathInputs
    /\ output = <<>>
    /\ config = <<>>
    /\ br = EmptyReplacer
    /\ replacement = <<>>
    /\ SortIdle

\* cleanPathSegment(input)
CallCleanPathSegment ==
    /\ op = "none"
    /\ op' = "cleanPathSegment"
    /\ output' = cleanPathSegment(input)
    /\ UNCHANGED <<input, brVars, sortVars, scanVars>>

\* cleanPath(input)
CallCleanPath ==
    /\ op = "none"
    /\ op' = "cleanPath"
    /\ output' = cleanPath(input)
    /\ UNCHANGED <<input, brVars, sortVars, scanVars>>

\* cleanPath applied to the result of the cleanPath call before it
CallCleanPathAgain ==
    /\ op = "cleanPath"
    /\ op' = "cleanPathAgain"
    /\ input' = output
    /\ output' = cleanPath(output)
    /\ UNCHANGED <<brVars, sortVars, scanVars>>

PathNext == CallCleanPathSegment \/ CallCleanPath \/ CallCleanPathAgain

PathSpec == PathInit /\ [][PathNext]_vars

BracketInit ==
    /\ op = "none"
    /\ input = <<>>
    /\ output = <<>>
    /\ config \in Configs
    /\ br = EmptyReplacer
    /\ replacement = <<>>
    /\ SortIdle

\* br := NewBracketReplacer(config)
CallNewBracketReplacer ==
    /\ op = "none"
    /\ op' = "NewBracketReplacer"
    /\ br' = NewBracketReplacer(config)
    /\ UNCHANGED <<input, output, config, replacement, sortVars, scanVars>>

\* br.Replace(text, replacement) on the filter just built
CallReplace ==
    /\ op = "NewBracketReplacer"
    /\ \E text \in Texts, r \in Replacements :
        /\ input' = text
        /\ replacement' = r
        /\ output' = Replace(br, text, r)
    /\ op' = "Replace"
    /\ UNCHANGED <<config, br, sortVars, scanVars>>

\* ReplaceInBrackets(config, replacement, text): the filter it builds is
\* local to the call
CallReplaceInBrackets ==
    /\ op = "none"
    /\ \E text \in TemplateTexts, r \in Replacements :
        /\ input' = text
        /\ replacement' = r
        /\ output' = ReplaceInBrackets(config, r, text)
    /\ op' = "ReplaceInBrackets"
    /\ UNCHANGED <<config, br, sortVars, scanVars>>

\* RemoveBrackets(config, text)
CallRemoveBrackets ==
    /\ op = "none"
    /\ \E text \in TemplateTexts :
        /\ input' = text
        /\ output' = RemoveBrackets(config, text)
    /\ replacement' = <<>>
    /\ op' = "RemoveBrackets"
    /\ UNCHANGED <<config, br, sortVars, scanVars>>

\* RemoveBrackets(config, output): the template function on its own result
CallRemoveBracketsAgain ==
    /\ op = "RemoveBrackets"
    /\ output' = RemoveBrackets(config, output)
    /\ op' = "RemoveBracketsAgain"
    /\ UNCHANGED <<input, config, br, replacement, sortVars, scanVars>>

BracketNext ==
    \/ CallNewBracketReplacer
    \/ CallReplace
    \/ CallReplaceInBrackets
    \/ CallRemoveBrackets
    \/ CallRemoveBracketsAgain

BracketSpec == BracketInit /\ [][BracketNext]_vars

\* ------------------------------------------------------------------------
\* main.go: one run of the sorter over a source directory
\* ------------------------------------------------------------------------

DestDir == <<"d">>

\* the file groups of the source directory: two groups that are given the
\* same destination, one of them with a sidecar file; a media file that
\* lies at its destination already; a file without tags
FileGroups ==
    {[media    |-> <<"s", "/", "1", ".", "m">>,
      sidecars |-> << <<"s", "/", "1", ".", "j">> >>,
      tags     |-> "ok",
      md       |-> Tags(<<"a">>, <<>>, <<"b">>, <<"t">>, 0)],
     [media    |-> <<"s", "/", "2", ".", "m">>,
      sidecars |-> <<>>,
      tags     |-> "ok",
      md       |-> Tags(<<"x">>, <<"a">>, <<"b">>, <<"t", "/">>, 0)],
     [media    |-> <<"d", "/", "a", "/", "b", "/", "0", "1", ".", " ", "u", ".", "m">>,
      sidecars |-> << <<"d", "/", "a", "/", "b", "/", "0", "1", ".", " ", "u", ".", "j">> >>,
      tags     |-> "ok",
      md       |-> Tags(<<"a">>, <<>>, <<"b">>, <<"u">>, 1)],
     [media    |-> <<"s", "/", "4", ".", "m">>,
      sidecars |-> <<>>,
      tags     |-> "none",
      md       |-> Tags(<<>>, <<>>, <<>>, <<>>, 0)]}

\* the files of the groups, each with a content of its own
SourceFiles ==
    (<<"s", "/", "1", ".", "m">> :> "m1")
        @@ (<<"s", "/", "1", ".", "j">> :> "j1")
        @@ (<<"s", "/", "2", ".", "m">> :> "m2")
        @@ (<<"d", "/", "a", "/", "b", "/", "0", "1", ".", " ", "u", ".", "m">> :> "m3")
        @@ (<<"d", "/", "a", "/", "b", "/", "0", "1", ".", " ", "u", ".", "j">> :> "j3")
        @@ (<<"s", "/", "4", ".", "m">> :> "m4")

\* destination files that may be there before the run
OldFiles ==
    {<<"d", "/", "a", "/", "b", "/", "t", ".", "m">>,
     <<"d", "/", "a", "/", "b", "/", "t", ".", "j">>}

\* a destination whose name may be taken by a directory before the run
OldDirs ==
    {<<"d", "/", "a", "/", "b", "/", "t", ".", "m">>,
     <<"d", "/", "a", "/", "b", "/", "t", ".", "j">>}

OldContent == "old"

SourceDirs == {<<"s">>, <<"d">>, <<"d", "/", "a">>, <<"d", "/", "a", "/", "b">>}

SortInit ==
    /\ op = "none"
    /\ input = <<>>
    /\ output = <<>>
    /\ config = <<>>
    /\ br = EmptyReplacer
    /\ replacement = <<>>
    /\ flags \in [dryRun : BOOLEAN, move : BOOLEAN, override : BOOLEAN,
                   verbose : 0..2]
    /\ \E old \in SUBSET OldFiles, taken \in SUBSET OldDirs :
           /\ old \cap taken = {}
           /\ disk = [files |-> [f \in old |-> OldContent] @@ SourceFiles,
                      dirs  |-> SourceDirs \cup taken]
    /\ seenFiles = {}
    /\ pending = FileGroups
    /\ metadata = NoTags
    /\ ScanIdle
    /\ result = NoResult

\* MetaDataReader.ReadMetadata: the error and the messages it writes
ReadMetadata(d, group, verbosity) ==
    IF group.media \notin DOMAIN d.files
    THEN [err |-> "open", printed |-> <<>>]
    ELSE IF group.tags = "none"
    THEN [err |-> "ErrNoTagsFound", printed |-> <<>>]
    ELSE [err     |-> "nil",
          printed |-> Written(verbosity, 2, [text |-> "Metadata for file",
                                             src |-> group.media, dest |-> <<>>])
                          \o Written(verbosity, 2, [text |-> "Created Metadata",
                                                    src |-> group.media,
                                                    dest |-> <<>>])]

\* the path the template gives for the group, cleaned
PathStrOf(group) == cleanPath(defaultPathTemplate(CleanForPaths(group.md)))

\* the destination of a file of the group: the cleaned path with the
\* extension of the file, below the destination directory
DestinationOf(pathStr, file) == JoinPath(DestDir, pathStr \o Ext(file))

\* the loop over the sidecar files from the k-th on: the disk after it, the
\* destinations processed, the destinations the file processor was called
\* with and the error that ended it
RECURSIVE ProcessSidecars(_, _, _, _, _, _)

\* the loop after the file processor has run on the k-th sidecar file
AfterSidecarFile(processor, group, pathStr, k, done, ran) ==
    IF ran.err # "nil"
    THEN [disk |-> ran.disk, sidecars |-> done, err |-> ran.err,
          tried |-> Append(done, DestinationOf(pathStr, group.sidecars[k]))]
    ELSE ProcessSidecars(processor, ran.disk, group, pathStr, k + 1,
                         Append(done, DestinationOf(pathStr, group.sidecars[k])))

ProcessSidecars(processor, d, group, pathStr, k, done) ==
    IF k > Len(group.sidecars)
    THEN [disk |-> d, sidecars |-> done, err |-> "nil", tried |-> done]
    ELSE AfterSidecarFile(processor, group, pathStr, k, done,
                          RunFileProcessor(processor, d, group.sidecars[k],
                                           DestinationOf(pathStr, group.sidecars[k])))

\* what a call of ProcessFileGroup did: the outcome, the error of the file
\* processor on the media file ("none" when it was not called), the
\* sidecar destinations processed and the messages written
Report(group, outcome, dest, mediaErr, sides, printed) ==
    [media |-> group.media, destPath |-> dest, outcome |-> outcome,
     mediaErr |-> mediaErr, sidecars |-> sides.sidecars, tried |-> sides.tried,
     printed |-> printed]

\* no sidecar file was reached
NoSidecars == [sidecars |-> <<>>, tried |-> <<>>]

\* ProcessFileGroup after the loop over the sidecar files
AfterSidecars(group, destPath, seen, printed, sides) ==
    [disk |-> sides.disk, seen |-> seen,
     result |-> Report(group, IF sides.err = "nil" THEN "processed" ELSE sides.err,
                       destPath, "nil", sides, printed)]

\* mutant: the loop over the sidecar files is entered after an error too
AfterMediaFileIgnoresError(processor, group, pathStr, destPath, seen, printed, ran) ==
    AfterSidecars(group, destPath, seen, printed,
                  ProcessSidecars(processor, ran.disk, group, pathStr, 1, <<>>))

\* ProcessFileGroup after the file processor has run on the media file
AfterMediaFile(processor, group, pathStr, destPath, seen, printed, ran) ==
    IF ran.err # "nil"
    THEN [disk |-> ran.disk, seen |-> seen,
          result |-> Report(group, ran.err, destPath, ran.err, NoSidecars, printed)]
    ELSE AfterSidecars(group, destPath, seen, printed,
                       ProcessSidecars(processor, ran.disk, group, pathStr, 1, <<>>))

\* ProcessFileGroup after the override checker has answered
AfterOverrideCheck(fl, d, group, pathStr, destPath, printed, checked) ==
    IF checked.exists
    THEN [disk |-> d, seen |-> checked.seen,
          result |-> Report(group, "exists", destPath, "none", NoSidecars,
                            printed \o Written(VerbosityOf(fl), 0,
                                               [text |-> "already exists, skipping",
                                                src  |-> group.media,
                                                dest |-> destPath]))]
    ELSE AfterMediaFile(FileProcessorOf(fl), group, pathStr, destPath,
                        checked.seen, printed,
                        RunFileProcessor(FileProcessorOf(fl), d, group.media,
                                         destPath))

\* ProcessFileGroup from the destination path on
AtDestination(fl, d, seen, group, pathStr, destPath, printed) ==
    IF group.media = destPath
    THEN [disk |-> d, seen |-> seen,
          result |-> Report(group, "same path", destPath, "none", NoSidecars,
                            printed)]
    ELSE AfterOverrideCheck(fl, d, group, pathStr, destPath,
                            printed \o Written(VerbosityOf(fl), 1,
                                               [text |-> "Processing file",
                                                src  |-> group.media,
                                                dest |-> destPath]),
                            DestinationFileExists(OverrideCheckerOf(fl), seen,
                                                  destPath))

\* ProcessFileGroup from the cleaned path of the template on
AtPathStr(fl, d, seen, group, pathStr, printed) ==
    AtDestination(fl, d, seen, group, pathStr,
                  DestinationOf(pathStr, group.media), printed)

\* ProcessFileGroup after ReadMetadata
AfterReadMetadata(fl, d, seen, group, read) ==
    IF read.err # "nil"
    THEN [disk |-> d, seen |-> seen,
          result |-> Report(group, read.err, <<>>, "none", NoSidecars,
                            read.printed)]
    ELSE AtPathStr(fl, d, seen, group, PathStrOf(group), read.printed)

\* ProcessFileGroup(group): the disk and SeenFiles after the call and what
\* the call did
ProcessFileGroupOn(fl, d, seen, group) ==
    AfterReadMetadata(fl, d, seen, group, ReadMetadata(d, group, VerbosityOf(fl)))

\* the outcomes of ProcessFileGroup after which Sort goes on to the next
\* group; after every other one it returns the error
SortContinues(outcome) == outcome \in {"processed", "exists", "ErrNoTagsFound"}

\* the result of a group without tags, with the warning Sort writes
WithSortWarning(fl, group, res) ==
    IF res.outcome = "ErrNoTagsFound"
    THEN [res EXCEPT !.printed = @ \o Written(VerbosityOf(fl), 0,
                                              [text |-> "No tags found, skipping",
                                               src  |-> group.media,
                                               dest |-> <<>>])]
    ELSE res

\* one round of the second pass of Sort: ProcessFileGroup on a group of the
\* map, in the order the map gives them
ProcessFileGroup(group) ==
    /\ group \in pending
    /\ \E done \in {ProcessFileGroupOn(flags, disk, seenFiles, group)} :
           /\ disk' = done.disk
           /\ seenFiles' = done.seen
           /\ result' = WithSortWarning(flags, group, done.result)
           /\ pending' = IF SortContinues(done.result.outcome)
                         THEN pending \ {group}
                         ELSE {}
    /\ UNCHANGED <<callVars, flags, metadata, scanVars>>

SortNext == \E group \in FileGroups : ProcessFileGroup(group)

SortSpec == SortInit /\ [][SortNext]_vars

\* ------------------------------------------------------------------------
\* bracketreplacer.go: Replace calls of several goroutines on one filter
\* ------------------------------------------------------------------------

ScanInit ==
    /\ op = "NewBracketReplacer"
    /\ input = <<>>
    /\ output = <<>>
    /\ config \in ScanConfigs
    /\ br = NewBracketReplacer(config)
    /\ replacement = <<>>
    /\ SortIdle

\* caller c calls br.Replace(text, r)
StartReplace(c) ==
    /\ calls[c].pc = "idle"
    /\ \E text \in ScanTextsOf(c), r \in ScanReplacements :
           calls' = [calls EXCEPT ![c] = enterReplace(@, text, r)]
    /\ UNCHANGED <<callVars, sortVars>>

\* caller c is at the test of the outer loop
OuterLoop(c) ==
    /\ calls[c].pc = "outer"
    /\ calls' = [calls EXCEPT ![c] = outerStep(br, @)]
    /\ UNCHANGED <<callVars, sortVars>>

\* caller c is at the test of the inner loop
InnerLoop(c) ==
    /\ calls[c].pc = "inner"
    /\ calls' = [calls EXCEPT ![c] = innerStep(br, @)]
    /\ UNCHANGED <<callVars, sortVars>>

ReplaceStep(c) == StartReplace(c) \/ OuterLoop(c) \/ InnerLoop(c)

ScanNext == \E c \in Callers : ReplaceStep(c)

ScanSpec == ScanInit /\ [][ScanNext]_vars

\* every goroutine that can take a step takes one in the end
ScanFairSpec == ScanSpec /\ \A c \in Callers : WF_vars(ReplaceStep(c))

\* ------------------------------------------------------------------------
\* main.go: the destination path of one media file
\* ------------------------------------------------------------------------

\* the values of a metadata text field
FieldValues ==
    StringsUpTo({"a", "/"}, MaxFieldLen) \cup {<<".">>, <<"/", ".">>, <<".", "/">>}

MediaPath == <<"s", "/", "1", ".", "m">>

DestinationInit ==
    /\ op = "none"
    /\ input = <<>>
    /\ output = <<>>
    /\ config = <<>>
    /\ br = EmptyReplacer
    /\ replacement = <<>>
    /\ flags = NoFlags
    /\ disk = [files |-> <<>>, dirs |-> {}]
    /\ seenFiles = {}
    /\ pending = {}
    /\ result = NoResult
    /\ ScanIdle
    /\ \E title \in FieldValues, album \in FieldValues, albumArtist \in FieldValues,
          artist \in {<<>>, <<"x", "/">>}, track \in {0, 1} :
           metadata = Tags(artist, albumArtist, album, title, track)

\* ProcessFileGroup up to destPath (main.go:1221-1227) for a media file
\* with the metadata
CallDestination ==
    /\ op = "none"
    /\ op' = "destPath"
    /\ input' = MediaPath
    /\ output' = DestinationOf(PathStrOf([md |-> metadata]), MediaPath)
    /\ UNCHANGED <<brVars, sortVars, scanVars>>

DestinationNext == CallDestination

DestinationSpec == DestinationInit /\ [][DestinationNext]_vars

\* ------------------------------------------------------------------------
\* Properties of the path sanitizer
\* ------------------------------------------------------------------------

\* the '/'-separated components of a path; the empty path has none
Components(p) == IF p = <<>> THEN <<>> ELSE Split(p, "/")

IsCleanPathCall == op \in {"cleanPath", "cleanPathAgain"}

\* C1: cleanPath is idempotent: cleanPath applied to a result of cleanPath
\* returns that result unchanged.
C1_CleanPathIdempotent == op = "cleanPathAgain" => output = input

\* C2: no component of cleanPath(p) is ".", ".." or made only of dots and
\* spaces.
C2_NoDotOnlyComponent ==
    IsCleanPathCall =>
        \A k \in 1..Len(Components(output)) :
            \E i \in 1..Len(Components(output)[k]) :
                Components(output)[k][i] \notin {".", " "}

\* a path with a ".." component whose cleaned form still has a component
C2_Witness ==
    /\ op = "cleanPath"
    /\ \E k \in 1..Len(Split(input, "/")) : Split(input, "/")[k] = <<".", ".">>
    /\ output # <<>>

\* C3: cleanPath(p) never starts with '/', never ends with '/' and has no
\* empty segment.
C3_NoEmptySegment ==
    IsCleanPathCall /\ output # <<>> =>
        /\ output[1] # "/"
        /\ output[Len(output)] # "/"
        /\ \A i \in 1..(Len(output) - 1) : ~(output[i] = "/" /\ output[i + 1] = "/")

\* a path with an empty segment between two segments that stay, or an
\* absolute path with a trailing slash
C3_Witness ==
    /\ op = "cleanPath"
    /\ \/ \E i \in 2..(Len(input) - 2) :
              /\ input[i] = "/" /\ input[i + 1] = "/"
              /\ \E k \in 1..Len(output) : output[k] = "/"
       \/ /\ Len(input) >= 3
          /\ input[1] = "/"
          /\ input[Len(input)] = "/"
          /\ output # <<>>

\* C4: the output of cleanPathSegment never ends with '-', '.' or a space.
C4_NoTrailingTrimChar ==
    op = "cleanPathSegment" /\ output # <<>> =>
        output[Len(output)] \notin TailTrimChars

\* C5: the output of cleanPathSegment never starts with '.' or a space.
C5_NoLeadingDotOrSpace ==
    op = "cleanPathSegment" /\ output # <<>> =>
        output[1] \notin LeadTrimChars

\* a segment that starts with a bracket is cleaned to one starting with '-'
C5_Witness ==
    /\ op = "cleanPathSegment"
    /\ input # <<>> /\ input[1] = "("
    /\ output # <<>> /\ output[1] = "-"

\* C6: the output of cleanPathSegment holds no forbidden character and no
\* ASCII control code.
C6_NoForbiddenChar ==
    op = "cleanPathSegment" =>
        \A i \in 1..Len(output) : output[i] \notin ForbiddenChars

\* a segment with a forbidden character and one of the substituted
\* characters, cleaned to a non-empty text
C6_Witness ==
    /\ op = "cleanPathSegment"
    /\ \E i \in 1..Len(input) : input[i] \in ForbiddenChars
    /\ \E i \in 1..Len(input) : input[i] \in {"&", "#", "("}
    /\ output # <<>>

\* C7: the output of cleanPathSegment is at most 255 bytes long and is the
\* first 255 bytes of the trimmed text when that text is longer.
C7_AtMost255Bytes ==
    op = "cleanPathSegment" =>
        /\ Len(output) <= 255
        /\ Len(trimmedText(input)) > 255 =>
               output = SubSeq(trimmedText(input), 1, 255)
        /\ input = Filler(256) => output = Filler(255)

\* a segment whose trimmed text is longer than the cap
C7_Witness ==
    /\ op = "cleanPathSegment"
    /\ Len(trimmedText(input)) > 255
    /\ Len(output) = 255

\* ------------------------------------------------------------------------
\* Properties of the bracket replacer
\* ------------------------------------------------------------------------

\* the match patterns of a config
PatternsOf(cfg) ==
    parsePatterns(scanConfig(DecodeRunes(cfg), 1, {}, FALSE, <<>>).built)

\* the opening characters that occur in a config
OpenersIn(cfg) ==
    LET runes == DecodeRunes(cfg)
    IN  {runes[i] : i \in 1..Len(runes)} \cap {"(", "[", "{", "<"}

closerOf(o) ==
    CASE o = "(" -> ")" [] o = "[" -> "]" [] o = "{" -> "}" [] o = "<" -> ">"

Least(S) == CHOOSE i \in S : \A j \in S : i <= j

\* the positions in the runes t of the opening characters `openers`
OpenerPositions(t, openers) == {i \in 1..Len(t) : t[i] \in openers}

\* the positions after the opener at position o that hold its closing
\* character
CloserPositions(t, o) == {i \in (o + 1)..Len(t) : t[i] = closerOf(t[o])}

\* the runes t hold one span of a type in `openers` and no other opening
\* character of such a type: the span runs from the one opener to the first
\* closing character of its type after it
HasOneSpan(t, openers) ==
    /\ Cardinality(OpenerPositions(t, openers)) = 1
    /\ CloserPositions(t, Least(OpenerPositions(t, openers))) # {}

SpanOpen(t, openers) == Least(OpenerPositions(t, openers))

SpanClose(t, openers) == Least(CloserPositions(t, SpanOpen(t, openers)))

SpanInterior(t, openers) ==
    SubSeq(t, SpanOpen(t, openers) + 1, SpanClose(t, openers) - 1)

\* the result with the one span of t replaced by r
WithSpanReplaced(t, openers, r) ==
    EncodeRunes(SubSeq(t, 1, SpanOpen(t, openers) - 1)) \o r
        \o EncodeRunes(SubSeq(t, SpanClose(t, openers) + 1, Len(t)))

\* whether the pattern, '*' standing for any run of runes, matches all of s
\* from rune i on, letters compared without case
RECURSIVE FullMatchFrom(_, _, _, _)
FullMatchFrom(pattern, k, s, i) ==
    IF k > Len(pattern) THEN i = Len(s) + 1
    ELSE IF pattern[k] = "*"
         THEN \E j \in i..(Len(s) + 1) : FullMatchFrom(pattern, k + 1, s, j)
    ELSE /\ i <= Len(s)
         /\ Fold(pattern[k]) = Fold(s[i])
         /\ FullMatchFrom(pattern, k + 1, s, i + 1)

\* one of the patterns matches the whole of s
SomePatternMatchesAll(patterns, s) ==
    \E k \in 1..Len(patterns) : FullMatchFrom(patterns[k], 1, s, 1)

\* one of the patterns matches some contiguous part of s
SomePatternMatchesPart(patterns, s) ==
    \E i \in 1..(Len(s) + 1) :
        \E j \in (i - 1)..Len(s) :
            SomePatternMatchesAll(patterns, SubSeq(s, i, j))

\* C8 as stated: a span is replaced only when a pattern matches its entire
\* interior.
C8_ReplacedOnlyOnFullMatch ==
    op = "Replace" =>
        LET t       == DecodeRunes(input)
            openers == OpenersIn(config)
        IN  HasOneSpan(t, openers)
                /\ output = WithSpanReplaced(t, openers, replacement)
            => SomePatternMatchesAll(PatternsOf(config), SpanInterior(t, openers))

\* C8 as amended: a span is replaced only when a pattern matches some
\* contiguous part of its interior, which may be all of it.
C8_ReplacedOnlyOnPartMatch ==
    op = "Replace" =>
        LET t       == DecodeRunes(input)
            openers == OpenersIn(config)
        IN  HasOneSpan(t, openers)
                /\ output = WithSpanReplaced(t, openers, replacement)
            => SomePatternMatchesPart(PatternsOf(config), SpanInterior(t, openers))

\* a span is replaced of whose interior only a part matches a pattern
C8_Witness ==
    /\ op = "Replace"
    /\ LET t        == DecodeRunes(input)
           openers  == OpenersIn(config)
           patterns == PatternsOf(config)
       IN  /\ HasOneSpan(t, openers)
           /\ output = WithSpanReplaced(t, openers, replacement)
           /\ SomePatternMatchesPart(patterns, SpanInterior(t, openers))
           /\ ~SomePatternMatchesAll(patterns, SpanInterior(t, openers))

\* every pattern is a literal word
LiteralWords(patterns) ==
    \A k \in 1..Len(patterns) :
        \A i \in 1..Len(patterns[k]) : patterns[k][i] # "*"

\* the positions of s at which the word occurs, letters compared without
\* case
WordPositions(s, word) ==
    {i \in 1..(Len(s) - Len(word) + 1) :
        \A m \in 1..Len(word) : Fold(s[i + m - 1]) = Fold(word[m])}

ContainsSomeWord(s, patterns) ==
    \E k \in 1..Len(patterns) : WordPositions(s, patterns[k]) # {}

\* C9 rune by rune: with literal words as patterns, a span is replaced when
\* its interior contains one of the words anywhere, without regard to case,
\* and is written with its runes kept when it contains none (an invalid
\* byte is written as U+FFFD, see C10).
C9_ReplacedIffWordInside ==
    op = "Replace" =>
        LET t        == DecodeRunes(input)
            openers  == OpenersIn(config)
            patterns == PatternsOf(config)
        IN  HasOneSpan(t, openers) /\ LiteralWords(patterns) =>
                IF ContainsSomeWord(SpanInterior(t, openers), patterns)
                THEN output = WithSpanReplaced(t, openers, replacement)
                ELSE output = EncodeRunes(t)

\* C9 with the span that is kept compared byte by byte: it is emitted
\* verbatim. The text around the span is compared rune by rune.
C9_KeptSpanIsVerbatim ==
    op = "Replace" =>
        LET t        == DecodeRunes(input)
            openers  == OpenersIn(config)
            patterns == PatternsOf(config)
        IN  HasOneSpan(t, openers) /\ LiteralWords(patterns) =>
                IF ContainsSomeWord(SpanInterior(t, openers), patterns)
                THEN output = WithSpanReplaced(t, openers, replacement)
                ELSE output =
                         EncodeRunes(SubSeq(t, 1, SpanOpen(t, openers) - 1))
                             \o BytesOfRunes(input, SpanOpen(t, openers),
                                             SpanClose(t, openers))
                             \o EncodeRunes(SubSeq(t, SpanClose(t, openers) + 1,
                                                   Len(t)))

\* a span replaced for a word that is only a part of its interior and is
\* written there in the other case only
C9_Witness ==
    /\ op = "Replace"
    /\ LET t        == DecodeRunes(input)
           openers  == OpenersIn(config)
           patterns == PatternsOf(config)
       IN  /\ HasOneSpan(t, openers)
           /\ LiteralWords(patterns)
           /\ ContainsSomeWord(SpanInterior(t, openers), patterns)
           /\ \A k \in 1..Len(patterns) :
                  \A i \in WordPositions(SpanInterior(t, openers), patterns[k]) :
                      SubSeq(SpanInterior(t, openers), i, i + Len(patterns[k]) - 1)
                          # patterns[k]
           /\ Len(SpanInterior(t, openers)) >= 2
           /\ output = WithSpanReplaced(t, openers, replacement)
           /\ output # input

\* C10: for a config with no opening character, Replace returns the text
\* unchanged.
C10_InertConfigKeepsText ==
    op = "Replace" /\ OpenersIn(config) = {} => output = input

\* C10 for the texts that are valid UTF-8: they are returned unchanged;
\* every other text is returned with each invalid byte as U+FFFD
C10_InertConfigKeepsRunes ==
    op = "Replace" /\ OpenersIn(config) = {} =>
        /\ output = EncodeRunes(DecodeRunes(input))
        /\ (\A i \in 1..Len(input) : input[i] \notin HighBytes) => output = input

\* the opening characters of the opener's type minus its closing characters
\* among the runes t[o .. c]
Depth(t, o, c) ==
    Cardinality({i \in o..c : t[i] = t[o]})
        - Cardinality({i \in o..c : t[i] = closerOf(t[o])})

\* the positions after the opener at o where its type is balanced
BalancePositions(t, o) == {c \in (o + 1)..Len(t) : Depth(t, o, c) = 0}

IsBalanced(t, o) == BalancePositions(t, o) # {}

\* the end of the span opened at o: the first position where it is balanced
CloseOf(t, o) == Least(BalancePositions(t, o))

InteriorOf(t, o) == SubSeq(t, o + 1, CloseOf(t, o) - 1)

\* whether the scan that starts at rune i meets the opener at position o:
\* it lies in no span of an active type opened before it and after no
\* active opener that is never balanced
RECURSIVE ScanMeets(_, _, _, _)
ScanMeets(t, openers, i, o) ==
    IF i = o THEN TRUE
    ELSE IF i > o THEN FALSE
    ELSE IF t[i] \in openers
         THEN IsBalanced(t, i) /\ ScanMeets(t, openers, CloseOf(t, i) + 1, o)
    ELSE ScanMeets(t, openers, i + 1, o)

\* the span opened at o is removed and r is written once in its place, the
\* text before and the text after the span being written as Replace writes
\* each of them
SpanSubstituted(t, o, r) ==
    output = Replace(br, EncodeRunes(SubSeq(t, 1, o - 1)), r) \o r
                 \o Replace(br, EncodeRunes(SubSeq(t, CloseOf(t, o) + 1, Len(t))), r)

C12_UnbalancedTailUnchanged ==
    op = "Replace" =>
        LET t       == DecodeRunes(input)
            openers == OpenersIn(config)
        IN  \A o \in OpenerPositions(t, openers) :
                ScanMeets(t, openers, 1, o) /\ ~IsBalanced(t, o) =>
                    output = Replace(br, BytesOfRunes(input, 1, o - 1), replacement)
                                 \o BytesOfRunes(input, o, Len(t))

\* C12 rune by rune: the text from the unbalanced bracket on is written
\* with its runes kept, an invalid byte among them as U+FFFD; no span after
\* the bracket is replaced and the spans replaced before it stay replaced
C12_UnbalancedTailKeepsRunes ==
    op = "Replace" =>
        LET t       == DecodeRunes(input)
            openers == OpenersIn(config)
        IN  \A o \in OpenerPositions(t, openers) :
                ScanMeets(t, openers, 1, o) /\ ~IsBalanced(t, o) =>
                    /\ output = Replace(br, BytesOfRunes(input, 1, o - 1), replacement)
                                    \o EncodeRunes(SubSeq(t, o, Len(t)))
                    /\ (\A i \in o..Len(t) : t[i] # RuneError) =>
                           output = Replace(br, BytesOfRunes(input, 1, o - 1),
                                            replacement)
                                        \o BytesOfRunes(input, o, Len(t))

\* a span is replaced before an unbalanced bracket, and a balanced matching
\* span after that bracket is kept
C12_SpanKeptAfterUnbalanced ==
    /\ op = "Replace"
    /\ LET t       == DecodeRunes(input)
           openers == OpenersIn(config)
       IN  \E o \in OpenerPositions(t, openers) :
               /\ ScanMeets(t, openers, 1, o) /\ ~IsBalanced(t, o)
               /\ \E q \in OpenerPositions(t, openers) :
                      /\ q > o /\ IsBalanced(t, q)
                      /\ MatchString(br.contentRegex, InteriorOf(t, q))
               /\ output = EncodeRunes(SubSeq(t, o, Len(t)))
               /\ output = input

\* what Replace writes for the span t[o .. c]
SpanWritten(t, o, c, r) ==
    IF MatchString(br.contentRegex, SubSeq(t, o + 1, c - 1))
    THEN r
    ELSE EncodeRunes(SubSeq(t, o, c))

\* C13: the span opened by an active opening bracket ends at the first
\* later position where the closing characters of its type equal the
\* opening characters of its type, the opener counted; the characters of
\* the other bracket types do not count. The inner loop of Replace stops
\* right after that position, or at the end of the text when there is none,
\* and the result is made of the text before the span, the span and the
\* text after that position.
C13_SpanEndsWhereTypeBalances ==
    op = "Replace" =>
        LET t       == DecodeRunes(input)
            openers == OpenersIn(config)
        IN  \A o \in OpenerPositions(t, openers) :
                LET found == findClose(t, o + 1, 1, t[o], br.activeBrackets[t[o]])
                IN  /\ (found.bracketCount = 0) = IsBalanced(t, o)
                    /\ IsBalanced(t, o) => found.i = CloseOf(t, o) + 1
                    /\ ~IsBalanced(t, o) => found.i = Len(t) + 1
                    /\ IsBalanced(t, o) /\ ScanMeets(t, openers, 1, o) =>
                           output =
                               Replace(br, BytesOfRunes(input, 1, o - 1), replacement)
                                   \o SpanWritten(t, o, CloseOf(t, o), replacement)
                                   \o Replace(br,
                                              BytesOfRunes(input, CloseOf(t, o) + 1,
                                                           Len(t)),
                                              replacement)

\* a replaced span that holds an active opening bracket of another type
\* which is not closed inside it
C13_Witness ==
    /\ op = "Replace"
    /\ LET t       == DecodeRunes(input)
           openers == OpenersIn(config)
       IN  \E o \in OpenerPositions(t, openers) :
               /\ ScanMeets(t, openers, 1, o)
               /\ IsBalanced(t, o)
               /\ \E q \in (o + 1)..(CloseOf(t, o) - 1) :
                      /\ t[q] \in openers /\ t[q] # t[o]
                      /\ \A e \in (q + 1)..(CloseOf(t, o) - 1) :
                             t[e] # closerOf(t[q])
               /\ output = EncodeRunes(SubSeq(t, 1, o - 1)) \o replacement
                               \o EncodeRunes(SubSeq(t, CloseOf(t, o) + 1, Len(t)))
               /\ output # input

\* the positions of t that hold an opening character of a canonical type
\* which is not active
InactiveOpenerPositions(t, openers) ==
    {i \in 1..Len(t) : isKnownOpenBracket(t[i]) /\ t[i] \notin openers}

\* the span opened at o is closed and holds no active opening bracket
IsPlainSpan(t, openers, o) ==
    /\ IsBalanced(t, o)
    /\ \A q \in o..CloseOf(t, o) : t[q] \notin openers

\* every balanced span of an active type that the scan meets is replaced
\* when the one compiled pattern matches its interior and kept when not,
\* whatever its type
ActiveTypesAlike(t, openers) ==
    \A o \in OpenerPositions(t, openers) :
        IsBalanced(t, o) /\ ScanMeets(t, openers, 1, o) =>
            output = Replace(br, BytesOfRunes(input, 1, o - 1), replacement)
                         \o SpanWritten(t, o, CloseOf(t, o), replacement)
                         \o Replace(br,
                                    BytesOfRunes(input, CloseOf(t, o) + 1, Len(t)),
                                    replacement)

\* C14: a span of a canonical bracket type that is not active, met by the
\* scan, is copied verbatim, also when its interior matches a pattern; the
\* patterns apply alike to the spans of every active type.
C14_InactiveSpanVerbatim ==
    op = "Replace" =>
        LET t       == DecodeRunes(input)
            openers == OpenersIn(config)
        IN  /\ \A o \in InactiveOpenerPositions(t, openers) :
                   ScanMeets(t, openers, 1, o) /\ IsPlainSpan(t, openers, o) =>
                       output =
                           Replace(br, BytesOfRunes(input, 1, o - 1), replacement)
                               \o BytesOfRunes(input, o, CloseOf(t, o))
                               \o Replace(br,
                                          BytesOfRunes(input, CloseOf(t, o) + 1,
                                                       Len(t)),
                                          replacement)
            /\ ActiveTypesAlike(t, openers)

\* C14 rune by rune: the span of the inactive type is written with its
\* runes kept (an invalid byte as U+FFFD, see C10), and verbatim when it is
\* valid UTF-8
C14_InactiveSpanKeepsRunes ==
    op = "Replace" =>
        LET t       == DecodeRunes(input)
            openers == OpenersIn(config)
        IN  /\ \A o \in InactiveOpenerPositions(t, openers) :
                   ScanMeets(t, openers, 1, o) /\ IsPlainSpan(t, openers, o) =>
                       LET before == Replace(br, BytesOfRunes(input, 1, o - 1),
                                             replacement)
                           after  == Replace(br,
                                             BytesOfRunes(input, CloseOf(t, o) + 1,
                                                          Len(t)),
                                             replacement)
                       IN  /\ output = before
                                           \o EncodeRunes(SubSeq(t, o, CloseOf(t, o)))
                                           \o after
                           /\ (\A i \in o..CloseOf(t, o) : t[i] # RuneError) =>
                                  output = before
                                               \o BytesOfRunes(input, o, CloseOf(t, o))
                                               \o after
            /\ ActiveTypesAlike(t, openers)

\* a span of an inactive type whose interior matches the pattern is kept
\* by a filter that replaces such an interior in a span of an active type
C14_MatchingInactiveSpanKept ==
    /\ op = "Replace"
    /\ LET t       == DecodeRunes(input)
           openers == OpenersIn(config)
       IN  /\ openers # {}
           /\ PatternsOf(config) # << <<"*">> >>
           /\ \E o \in InactiveOpenerPositions(t, openers) :
                  /\ IsPlainSpan(t, openers, o)
                  /\ CloseOf(t, o) > o + 1
                  /\ MatchString(br.contentRegex, InteriorOf(t, o))
                  /\ output = input

\* the runes a config writes to the pattern source are commas and white
\* space only, or none at all
YieldsNoPattern(cfg) ==
    LET built == scanConfig(DecodeRunes(cfg), 1, {}, FALSE, <<>>).built
    IN  \A i \in 1..Len(built) : built[i] \in {","} \cup TrimSpaceChars

\* C15: a config that activates a bracket type and yields no non-empty
\* pattern builds the filter of the one pattern "*", and every balanced
\* span of an active type met by the scan is replaced, whatever its
\* interior.
C15_NoPatternMatchesEverything ==
    op = "Replace" /\ OpenersIn(config) # {} /\ YieldsNoPattern(config) =>
        LET t       == DecodeRunes(input)
            openers == OpenersIn(config)
        IN  /\ br.contentRegex = buildContentRegex(<< <<"*">> >>)
            /\ \A o \in OpenerPositions(t, openers) :
                   ScanMeets(t, openers, 1, o) /\ IsBalanced(t, o) =>
                       SpanSubstituted(t, o, replacement)

\* a config of commas and spaces only: a span with an empty interior, with
\* text before it, is replaced
C15_Witness ==
    /\ op = "Replace"
    /\ OpenersIn(config) # {}
    /\ YieldsNoPattern(config)
    /\ scanConfig(DecodeRunes(config), 1, {}, FALSE, <<>>).built # <<>>
    /\ replacement # <<>>
    /\ LET t       == DecodeRunes(input)
           openers == OpenersIn(config)
       IN  \E o \in OpenerPositions(t, openers) :
               /\ o > 1
               /\ ScanMeets(t, openers, 1, o) /\ IsBalanced(t, o)
               /\ CloseOf(t, o) = o + 1
               /\ output = EncodeRunes(SubSeq(t, 1, o - 1)) \o replacement
                               \o EncodeRunes(SubSeq(t, o + 2, Len(t)))

\* how often the rune r occurs in the runes t
Occurrences(t, r) == Cardinality({i \in 1..Len(t) : t[i] = r})

\* C16: the active-bracket set of a filter is the set of the canonical
\* pairs whose opening character occurs in the config, each opening
\* character registered with its own closing character.
C16_ActiveSetIsOpenersInConfig ==
    op = "NewBracketReplacer" =>
        /\ DOMAIN br.activeBrackets = OpenersIn(config)
        /\ \A o \in DOMAIN br.activeBrackets :
               br.activeBrackets[o] = closerOf(o)

\* a config with a bracket type whose opening and closing characters differ
\* in number, which activates that type, and with a closing character of a
\* type that it does not activate
C16_Witness ==
    /\ op = "NewBracketReplacer"
    /\ LET c == DecodeRunes(config)
       IN  /\ \E o \in DOMAIN br.activeBrackets :
                  Occurrences(c, o) # Occurrences(c, closerOf(o))
           /\ \E o \in {"(", "[", "{", "<"} \ DOMAIN br.activeBrackets :
                  Occurrences(c, closerOf(o)) > 0

BracketRunes == {"(", ")", "[", "]", "{", "}", "<", ">"}

\* the positions of the runes c that hold a non-bracket character whose
\* nearest bracket to the left is an opening bracket
PatternPositions(c) ==
    {i \in 1..Len(c) :
        /\ c[i] \notin BracketRunes
        /\ \E j \in 1..(i - 1) :
               /\ c[j] \in {"(", "[", "{", "<"}
               /\ \A m \in (j + 1)..(i - 1) : c[m] \notin {")", "]", "}", ">"}}

\* the runes of c at the positions P, in order
RECURSIVE RunesAt(_, _)
RunesAt(c, P) ==
    IF P = {} THEN <<>>
    ELSE <<c[Least(P)]>> \o RunesAt(c, P \ {Least(P)})

PatternSource(cfg) ==
    LET c == DecodeRunes(cfg) IN RunesAt(c, PatternPositions(c))

\* C17: the pattern source of a config is the concatenation, in order and
\* with no separator, of the non-bracket characters that follow an opening
\* bracket with no closing bracket in between; the filter is built from
\* that source alone. "l([*])x" gives the filter of "([*])", and "(l)[x]"
\* gives the one pattern "lx".
C17_PatternSourceFollowsOpeners ==
    op = "NewBracketReplacer" =>
        /\ scanConfig(DecodeRunes(config), 1, {}, FALSE, <<>>).built
               = PatternSource(config)
        /\ br.contentRegex = buildContentRegex(parsePatterns(PatternSource(config)))
        /\ config = <<"l", "(", "[", "*", "]", ")", "x">> =>
               br = NewBracketReplacer(<<"(", "[", "*", "]", ")">>)
        /\ config = <<"(", "l", ")", "[", "x", "]">> =>
               br.contentRegex.alternatives =
                   << <<[any |-> FALSE, lit |-> "l"], [any |-> FALSE, lit |-> "x"]>> >>

\* the filter of "(l)[x]" replaces a span that holds "Lx"
C17_Witness ==
    /\ op = "Replace"
    /\ config = <<"(", "l", ")", "[", "x", "]">>
    /\ input = <<"(", "L", "x", ")">>
    /\ replacement # <<>>
    /\ output = replacement

\* the filter of "(l)[x]" keeps a span that holds "L" without "x"
C17_KeepsSingleWord ==
    /\ op = "Replace"
    /\ config = <<"(", "l", ")", "[", "x", "]">>
    /\ input = <<"(", "L", ")">>
    /\ output = input

\* C18: in a pattern '*' stands for any sequence of characters, a letter
\* for itself in either case and every other character for itself only: a
\* span is replaced when some part of its interior is matched in this sense
\* and kept when none is.
C18_StarAnySequenceOthersLiteral ==
    op = "Replace" =>
        LET t        == DecodeRunes(input)
            openers  == OpenersIn(config)
            patterns == PatternsOf(config)
        IN  HasOneSpan(t, openers) =>
                IF SomePatternMatchesPart(patterns, SpanInterior(t, openers))
                THEN output = WithSpanReplaced(t, openers, replacement)
                ELSE output = EncodeRunes(t)

\* C18 for the interiors without a line feed
C18_LiteralWithinOneLine ==
    op = "Replace" =>
        LET t        == DecodeRunes(input)
            openers  == OpenersIn(config)
            patterns == PatternsOf(config)
        IN  /\ HasOneSpan(t, openers)
            /\ \A i \in 1..Len(SpanInterior(t, openers)) :
                   SpanInterior(t, openers)[i] # LF
            => IF SomePatternMatchesPart(patterns, SpanInterior(t, openers))
               THEN output = WithSpanReplaced(t, openers, replacement)
               ELSE output = EncodeRunes(t)

\* the pattern "." keeps a span whose interior has no '.'
C18_DotKeepsLetters ==
    /\ op = "Replace"
    /\ config = <<"(", ".", ")">>
    /\ input = <<"(", "x", "+", ")">>
    /\ output = input

\* the pattern "." replaces a span whose interior has a '.'
C18_DotReplacesDot ==
    /\ op = "Replace"
    /\ config = <<"(", ".", ")">>
    /\ input = <<"(", "x", ".", ")">>
    /\ output = replacement

\* a '*' between two letters does not reach over a line feed
C18_StarStopsAtLineFeed ==
    /\ op = "Replace"
    /\ config = <<"(", "x", "*", "x", ")">>
    /\ input = <<"(", "x", LF, "x", ")">>
    /\ output = input

\* C19: RemoveBrackets returns what Replace returns with the empty
\* replacement and ReplaceInBrackets what Replace returns with the given
\* replacement, on a filter built from the same config; a filter built
\* earlier and kept returns what the filter built for the call returns.
C19_TemplateFunctionsAreReplace ==
    /\ op = "RemoveBrackets" =>
           output = Replace(NewBracketReplacer(config), input, <<>>)
    /\ op = "ReplaceInBrackets" =>
           output = Replace(NewBracketReplacer(config), input, replacement)
    /\ op = "Replace" =>
           /\ output = ReplaceInBrackets(config, replacement, input)
           /\ replacement = <<>> => output = RemoveBrackets(config, input)

\* ReplaceInBrackets writes a non-empty replacement for a span and keeps
\* the text before it
C19_Witness ==
    /\ op = "ReplaceInBrackets"
    /\ replacement # <<>>
    /\ Len(input) > 1
    /\ input[1] \notin BracketRunes
    /\ output = <<input[1]>> \o replacement

\* RemoveBrackets deletes a span and keeps the text before it
C19_RemoveBracketsDeletes ==
    /\ op = "RemoveBrackets"
    /\ Len(input) > 1
    /\ input[1] \notin BracketRunes
    /\ output = <<input[1]>>

\* ------------------------------------------------------------------------
\* Properties of the sorter
\* ------------------------------------------------------------------------

\* the call that ends in the next state got as far as the test of the
\* destination, and a file is at the destination
MeetsExistingDestination ==
    /\ result'.destPath # <<>>
    /\ result'.outcome # "same path"
    /\ result'.destPath \in DOMAIN disk.files

\* C20: without --override a file whose destination exists is skipped and
\* the file at the destination stays as it is; with --override (and no
\* --dry-run) the file at the destination is overwritten with the source.
C20_OverrideOnlyWithFlag ==
    [][MeetsExistingDestination =>
           IF ~flags.override
           THEN /\ result'.outcome = "exists"
                /\ disk'.files = disk.files
           ELSE ~flags.dryRun =>
                    /\ result'.mediaErr = "nil"
                    /\ disk'.files[result'.destPath] = disk.files[result'.media]]_vars

\* what the code does at an existing destination, without --dry-run:
\* without --override the file is always overwritten; with --override it
\* is overwritten unless an earlier group of the run had this destination,
\* and then the group is skipped
C20_OverwritesUnlessSeenInRun ==
    [][MeetsExistingDestination /\ ~flags.dryRun =>
           IF flags.override /\ result'.destPath \in seenFiles
           THEN /\ result'.outcome = "exists"
                /\ disk'.files = disk.files
           ELSE /\ result'.mediaErr = "nil"
                /\ disk'.files[result'.destPath] = disk.files[result'.media]]_vars

\* without --override and --dry-run a file that was at the destination
\* before the run has been overwritten by a copy
C20_OldFileOverwritten ==
    /\ ~flags.override /\ ~flags.dryRun /\ ~flags.move
    /\ result.outcome = "processed"
    /\ result.destPath = <<"d", "/", "a", "/", "b", "/", "t", ".", "m">>
    /\ result.media = <<"s", "/", "1", ".", "m">>
    /\ disk.files[result.destPath] = "m1"
    /\ pending = FileGroups \ {g \in FileGroups : g.media = result.media}

\* the message that shows the old and the new name of the media file
ProcessingMessage(res) ==
    [text |-> "Processing file", src |-> res.media, dest |-> res.destPath]

\* C21: with --dry-run, also together with --move, a call of
\* ProcessFileGroup leaves every file and directory as it is, and for a
\* group it goes through it has written the old and the new name.
C21_DryRunChangesNothing ==
    [][flags.dryRun =>
           /\ disk' = disk
           /\ result'.outcome = "processed" =>
                  \E k \in 1..Len(result'.printed) :
                      result'.printed[k] = ProcessingMessage(result')]_vars

\* a dry run with --move and without -v went through a group with a
\* sidecar file whose destination directory and files are not there
C21_Witness ==
    /\ flags.dryRun /\ flags.move /\ flags.verbose = 0
    /\ result.outcome = "processed"
    /\ result.sidecars # <<>>
    /\ result.media \in DOMAIN disk.files
    /\ result.destPath \notin DOMAIN disk.files
    /\ \A k \in 1..Len(result.sidecars) : result.sidecars[k] \notin DOMAIN disk.files

\* the text without its '/'
RECURSIVE WithoutSlashes(_)
WithoutSlashes(t) ==
    IF t = <<>> THEN <<>>
    ELSE (IF Head(t) = "/" THEN <<>> ELSE <<Head(t)>>) \o WithoutSlashes(Tail(t))

\* the metadata with every '/' deleted from the text fields
MetadataWithoutSlashes(md) ==
    Tags(WithoutSlashes(md.Artist), WithoutSlashes(md.AlbumArtist),
         WithoutSlashes(md.Album), WithoutSlashes(md.Title), md.Track)

\* the separators written in the default template
TemplateSeparators == 2

GroupOf(res) == CHOOSE g \in FileGroups : g.media = res.media

\* a path below the destination directory, relative to it
BelowDestDir(p) ==
    IF p = DestDir THEN <<>> ELSE SubSeq(p, Len(DestDir) + 2, Len(p))

WithoutSuffix(p, suffix) ==
    IF /\ Len(suffix) <= Len(p)
       /\ SubSeq(p, Len(p) - Len(suffix) + 1, Len(p)) = suffix
    THEN SubSeq(p, 1, Len(p) - Len(suffix))
    ELSE p

\* the destination of the media file with the extension of the sidecar file
\* in the place of the extension of the media file
SidecarDestination(destPath, media, sidecar) ==
    JoinPath(DestDir,
             WithoutSuffix(BelowDestDir(destPath), Ext(media)) \o Ext(sidecar))

\* the file at the path, or that there is none
FileAt(d, p) == IF p \in DOMAIN d.files THEN d.files[p] ELSE "no file"

\* C23: the file processor is called on a sidecar file only after it has
\* returned no error for the media file in the same call, and with the
\* destination of the media file under the extension of the sidecar file;
\* when the media file is skipped or its processing fails, the file
\* processor is called on no sidecar file and the sidecar files and their
\* destinations are as they were.
C23_SidecarsFollowMediaFile ==
    [][/\ result'.tried # <<>> =>
              /\ result'.mediaErr = "nil"
              /\ ~flags.dryRun =>
                     FileAt(disk', result'.destPath) = FileAt(disk, result'.media)
       /\ \A k \in 1..Len(result'.tried) :
              result'.tried[k] =
                  SidecarDestination(result'.destPath, result'.media,
                                     GroupOf(result').sidecars[k])
       /\ result'.mediaErr # "nil" =>
              /\ result'.tried = <<>>
              /\ \A k \in 1..Len(GroupOf(result').sidecars) :
                     /\ FileAt(disk', GroupOf(result').sidecars[k]) =
                            FileAt(disk, GroupOf(result').sidecars[k])
                     /\ result'.destPath # <<>> =>
                            FileAt(disk', SidecarDestination(
                                       result'.destPath, result'.media,
                                       GroupOf(result').sidecars[k])) =
                            FileAt(disk, SidecarDestination(
                                       result'.destPath, result'.media,
                                       GroupOf(result').sidecars[k]))]_vars

\* a media file and its sidecar file were copied, the sidecar file to the
\* destination of the media file under its own extension
C23_Witness ==
    /\ ~flags.dryRun /\ ~flags.move
    /\ result.outcome = "processed"
    /\ result.mediaErr = "nil"
    /\ result.destPath = <<"d", "/", "a", "/", "b", "/", "t", ".", "m">>
    /\ result.sidecars = << <<"d", "/", "a", "/", "b", "/", "t", ".", "j">> >>
    /\ FileAt(disk, result.destPath) = "m1"
    /\ FileAt(disk, result.sidecars[1]) = "j1"

\* a group with a sidecar file was skipped because the destination of the
\* media file was reported as existing
C23_SkippedAsExisting ==
    /\ result.outcome = "exists"
    /\ GroupOf(result).sidecars # <<>>
    /\ result.tried = <<>>

\* a group with a sidecar file whose media file lies at its destination
C23_SkippedAsSamePath ==
    /\ result.outcome = "same path"
    /\ GroupOf(result).sidecars # <<>>
    /\ result.tried = <<>>

\* the file processor failed on the media file of a group with a sidecar
\* file
C23_MediaFileFailed ==
    /\ result.mediaErr \notin {"nil", "none"}
    /\ GroupOf(result).sidecars # <<>>
    /\ result.tried = <<>>

\* the file processor failed on a sidecar file after the media file
C23_SidecarFailed ==
    /\ result.mediaErr = "nil"
    /\ result.outcome \notin {"processed"}
    /\ result.tried # <<>>
    /\ result.sidecars = <<>>

\* the pipeline as it is specified, stage by stage, with the forbidden
\* bytes mapped to a space in the first stage
PipelineForbidden(s) ==
    [i \in 1..Len(s) |-> IF s[i] \in ForbiddenChars THEN " " ELSE s[i]]

PipelineBrackets(s) == ReplaceEach(s, {"(", ")", "[", "]", "{", "}"}, <<" ", "-", " ">>)

PipelineBacktick(s) == SelectSeq(s, LAMBDA c : c # BackTick)

PipelineAmpersand(s) == ReplaceEach(s, {"&"}, <<"a", "n", "d">>)

PipelineHash(s) == ReplaceEach(s, {"#"}, <<"N", "o">>)

\* every run of bytes of the class written as one space: a byte of the
\* class that follows another one is dropped
RECURSIVE PipelineCollapse(_, _)
PipelineCollapse(s, class) ==
    IF s = <<>> THEN <<>>
    ELSE LET n     == Len(s)
             front == PipelineCollapse(SubSeq(s, 1, n - 1), class)
         IN  IF s[n] \notin class THEN Append(front, s[n])
             ELSE IF n > 1 /\ s[n - 1] \in class THEN front
             ELSE Append(front, " ")

RECURSIVE PipelineTrimLeft(_)
PipelineTrimLeft(s) ==
    IF s # <<>> /\ Head(s) \in {".", " "} THEN PipelineTrimLeft(Tail(s)) ELSE s

RECURSIVE PipelineTrimRight(_)
PipelineTrimRight(s) ==
    IF s # <<>> /\ s[Len(s)] \in {"-", ".", " "}
    THEN PipelineTrimRight(SubSeq(s, 1, Len(s) - 1))
    ELSE s

PipelineTruncate(s) == SubSeq(s, 1, IF Len(s) < 255 THEN Len(s) ELSE 255)

SpecifiedPipeline(s) ==
    PipelineTruncate(PipelineTrimRight(PipelineTrimLeft(
        PipelineCollapse(PipelineCollapse(
            PipelineHash(PipelineAmpersand(PipelineBacktick(PipelineBrackets(
                PipelineForbidden(s))))),
            {"_", Tab, CR, LF}), {" ", Tab, LF, FF, CR}))))

\* C24: cleanPathSegment returns what the specified pipeline returns, whose
\* first stage writes a space for each forbidden byte.
C24_SegmentIsSpecifiedPipeline ==
    op = "cleanPathSegment" => output = SpecifiedPipeline(input)

\* a segment with a forbidden byte between two others: the code writes '_'
\* for it and the pipeline a space, and the result has the space
C24_Witness ==
    /\ op = "cleanPathSegment"
    /\ Len(input) = 3
    /\ input[2] \in ForbiddenChars
    /\ StageForbidden(input) # PipelineForbidden(input)
    /\ output = <<input[1], " ", input[3]>>

\* the cleaned pieces of a path that are not empty, in the order of the
\* pieces
CleanedPieces(p) ==
    LET pieces == Split(p, "/")
    IN  SelectSeq([i \in 1..Len(pieces) |-> cleanPathSegment(pieces[i])],
                  LAMBDA c : c # <<>>)

\* C25: the components of cleanPath(p) are the non-empty results of
\* cleanPathSegment on the '/'-separated pieces of p, in their order and
\* each as often as it occurs.
C25_ComponentsAreCleanedPieces ==
    op = "cleanPath" => Components(output) = CleanedPieces(input)

\* a path of more pieces than components, with the same component twice
C25_Witness ==
    /\ op = "cleanPath"
    /\ Len(Components(output)) = 2
    /\ Len(Split(input, "/")) = 3
    /\ Components(output)[1] = Components(output)[2]

\* C26: the result of cleanPathSegment holds no underscore, tab, carriage
\* return or line feed and no two spaces in a row.
C26_NoSpaceRunLeft ==
    op = "cleanPathSegment" =>
        /\ \A i \in 1..Len(output) : output[i] \notin {"_", Tab, CR, LF}
        /\ \A i \in 1..(Len(output) - 1) : ~(output[i] = " " /\ output[i + 1] = " ")

\* a space before a bracket: the marker of the bracket makes a run of two
\* spaces, which is one space in the result
C26_Witness ==
    /\ op = "cleanPathSegment"
    /\ input = <<"a", " ", "(", "a">>
    /\ output = <<"a", " ", "-", " ", "a">>

\* an underscore between two letters is one space
C26_UnderscoreIsOneSpace ==
    /\ op = "cleanPathSegment"
    /\ input = <<"a", "_", "a">>
    /\ output = <<"a", " ", "a">>

\* C29: RemoveBrackets on a result of RemoveBrackets, with the same config,
\* returns that result: the second pass deletes nothing more.
C29_RemoveBracketsIdempotent ==
    op = "RemoveBracketsAgain" => output = RemoveBrackets(config, input)

\* a span was deleted between text that holds brackets, and the second pass
\* has left the result of the first as it was
C29_Witness ==
    /\ op = "RemoveBracketsAgain"
    /\ input = <<")", "(", "L", ")", "(", ")">>
    /\ output = <<")", "(", ")">>

\* the second pass on a result in which an opening bracket is left without
\* its close
C29_UnbalancedLeft ==
    /\ op = "RemoveBracketsAgain"
    /\ input = <<"x", "(", "L", ")", "(">>
    /\ output = <<"x", "(">>

\* ------------------------------------------------------------------------
\* Properties of concurrent Replace calls
\* ------------------------------------------------------------------------

\* C27: through the Replace calls of all callers the filter stays the one
\* that was constructed, and a call that has returned has the result
\* Replace gives for its text and replacement when it runs alone.
C27_SharedFilterIsReadOnly ==
    op = "NewBracketReplacer" /\ calls # [c \in Callers |-> NoCall] =>
        /\ br = NewBracketReplacer(config)
        /\ \A c \in Callers :
               calls[c].pc = "done" =>
                   calls[c].result = Replace(NewBracketReplacer(config),
                                             calls[c].text, calls[c].replacement)

\* one call has returned with a span replaced while the other call, on
\* another text, is in its inner loop
C27_Witness ==
    /\ calls[1].pc = "done"
    /\ calls[1].replacement # <<>>
    /\ calls[1].result = calls[1].replacement
    /\ calls[2].pc = "inner"
    /\ calls[2].i > 2
    /\ calls[2].text # calls[1].text

\* both calls are inside a span at the same time
C27_BothInInnerLoop ==
    /\ calls[1].pc = "inner" /\ calls[1].i > 2
    /\ calls[2].pc = "inner" /\ calls[2].i > 2

\* the step of caller c is an iteration of the outer loop (up to the inner
\* loop, when the rune is an active opening bracket) or of the inner loop
IsIteration(c) ==
    /\ calls'[c] # calls[c]
    /\ \/ calls[c].pc = "outer" /\ calls[c].i <= Len(calls[c].runes)
       \/ /\ calls[c].pc = "inner"
          /\ calls[c].i <= Len(calls[c].runes)
          /\ calls[c].bracketCount > 0

\* C28: every iteration of the outer and of the inner loop of Replace moves
\* the scan index forward by one rune, the index never passes the position
\* after the last rune, and every call returns.
C28_ScanAdvancesAndEnds ==
    /\ [][\A c \in Callers :
              /\ IsIteration(c) => calls'[c].i = calls[c].i + 1
              /\ calls'[c].i >= calls[c].i \/ calls[c].pc \in {"idle"}]_vars
    /\ [](\A c \in Callers : calls[c].i <= Len(calls[c].runes) + 1)
    /\ \A c \in Callers : <>(calls[c].pc = "done")

\* one call has returned from a text whose opening bracket is never
\* closed, the other from a text with a balanced span
C28_Witness ==
    /\ calls[1].pc = "done"
    /\ calls[1].text = <<"(", "(", "l", ")">>
    /\ calls[1].result = calls[1].text
    /\ calls[1].i = Len(calls[1].runes) + 1
    /\ calls[2].pc = "done"
    /\ calls[2].text = <<"(", "l", ")", "x">>

\* a call has returned from a text without brackets
C28_BracketFreeReturned ==
    /\ calls[1].pc = "done"
    /\ calls[1].text = <<"l", "l">>
    /\ calls[1].result = <<"l", "l">>

\* the text from position i on with every span the scan meets and whose
\* interior matches substituted by r, and every other byte as it is: a
\* byte outside spans, a span that does not match with all that is nested
\* in it, and the rest of the text from an opening bracket that is never
\* balanced. r is written and not read again.
RECURSIVE SubstitutedFrom(_, _, _, _, _)
SubstitutedFrom(t, openers, regex, r, i) ==
    IF i > Len(t) THEN <<>>
    ELSE IF t[i] \notin openers
    THEN <<t[i]>> \o SubstitutedFrom(t, openers, regex, r, i + 1)
    ELSE IF ~IsBalanced(t, i) THEN SubSeq(t, i, Len(t))
    ELSE (IF MatchString(regex, DecodeRunes(InteriorOf(t, i)))
          THEN r
          ELSE SubSeq(t, i, CloseOf(t, i)))
             \o SubstitutedFrom(t, openers, regex, r, CloseOf(t, i) + 1)

\* C30: the result of Replace is the text with each replaced span
\* substituted by the replacement and every other byte kept, in order and
\* as it is; the replacement is not scanned.
C30_OthersKeptVerbatim ==
    \A c \in Callers :
        calls[c].pc = "done" =>
            calls[c].result =
                SubstitutedFrom(calls[c].text, OpenersIn(config), br.contentRegex,
                                calls[c].replacement, 1)

\* C30 rune by rune: the result is the substitution made on the text in
\* which every invalid byte is U+FFFD, and on the text itself when it is
\* valid UTF-8
C30_OthersKeptAsRunes ==
    \A c \in Callers :
        calls[c].pc = "done" =>
            /\ calls[c].result =
                   SubstitutedFrom(EncodeRunes(DecodeRunes(calls[c].text)),
                                   OpenersIn(config), br.contentRegex,
                                   calls[c].replacement, 1)
            /\ (\A i \in 1..Len(calls[c].text) : calls[c].text[i] \notin HighBytes)
                   => calls[c].result =
                          SubstitutedFrom(calls[c].text, OpenersIn(config),
                                          br.contentRegex, calls[c].replacement, 1)

\* a replacement with an active opening bracket was written before a
\* closing bracket of the text and the two were not taken as a span
C30_ReplacementNotScanned ==
    /\ config = <<"(">>
    /\ calls[2].pc = "done"
    /\ calls[2].text = <<"(", ")", ")">>
    /\ calls[2].replacement = <<"(", "R">>
    /\ calls[2].result = <<"(", "R", ")">>

\* a span that does not match was kept with the span nested in it
C30_NestedKept ==
    /\ config = <<"(", "l", ")">>
    /\ calls[2].pc = "done"
    /\ calls[2].text = <<"(", "(", "x", ")", ")", "l">>
    /\ calls[2].result = calls[2].text

====
